---- MODULE Spec2Model ----
(***************************************************************************)
(* A model of the mcp-gateway request pipeline and its collaborators:      *)
(* the policy engine (policy.ts), the audit log (audit.ts), the rate       *)
(* limiter (ratelimit.ts), the meter (meter.ts), the tool-protocol proxy   *)
(* (proxy.ts), the server registry (registry.ts) and the orchestrator      *)
(* (gateway.ts).                                                           *)
(*                                                                         *)
(* Strings that the code concatenates, slices or glob-matches are          *)
(* sequences of characters; strings that are only compared are TLA+        *)
(* strings.  JavaScript's undefined is the one-element sequence Undefined; *)
(* the empty string is the empty sequence (both are falsy, as in the code).*)
(***************************************************************************)
EXTENDS Integers, Sequences, FiniteSets, TLC

VARIABLES
  \* PolicyEngine under evaluation (SpecPolicy)
  pPolicies,    \* PolicyEngine.policies
  pCtx,         \* evaluate: ctx
  pServer,      \* evaluate: serverId
  pTool,        \* evaluate: toolName
  pArgs,        \* evaluate: args
  pDecision,    \* <<the PolicyDecision returned>>, <<>> before the call
  \* the clock
  now,          \* Date.now(), in milliseconds
  \* AuditLog and its SQLite file
  auditRows,    \* table audit_log of the file, in rowid order
  dbOpen,       \* AuditLog.db is an open connection
  lastHash,     \* AuditLog.lastHash
  hashChain,    \* AuditLog.hashChain
  uuids,        \* number of ids randomUUID() has issued
  writers,      \* history: for each row, the AuditLog instance that wrote it
                \*   and the response log() was given for it
  instances,    \* history: number of AuditLog instances constructed
  tampered,     \* history: <<k, field>> once row k was modified in the file
  verified,     \* <<the result of the last verify()>>, <<>> once the file changes
  \* Gateway and its collaborators
  started,      \* Gateway.start() has run
  stopped,      \* Gateway.stop() has run
  tools,        \* ServerRegistry: the tools registered for each server
  proxies,      \* Gateway.proxies: server id -> McpProxy [requestId, pending]
  windows,      \* RateLimiter.windows
  meter,        \* Meter: [buckets, history, currentPeriod]
  calls,        \* the callTool invocations: position, locals, and what each did
  \* a RateLimiter on its own (SpecLimiter); its windows are `windows'
  limiter,      \* RateLimiter: [defaultPerMinute, burstMultiplier]
  limits,       \* the limitOverride each key is checked with (0: none)
  lastCheck,    \* <<the last check: key, instant, window before and after,
                \*   result, result of a limiter that serves only this key,
                \*   result and window before of the limiter never cleaned up>>
  opened,       \* history: per key, when its 60 s window began and the
                \*   number of checks made in it
  alone,        \* per key, the windows of a limiter that serves only that key
  uncleaned,    \* the windows of a limiter given the same checks and never
                \*   cleaned up
  \* a McpProxy on its own (SpecProxy)
  mcp,          \* McpProxy: [requestId, timeoutMs, pending, timers, promises]
  mcpLast,      \* <<the last thing that happened to it>>
  doomed,       \* history: the ids that were pending when destroy() ran
  \* ServerRegistry, the child processes it spawned and its timers
  registry,     \* [servers, children, timers]
  \* a Meter on its own (SpecMeter); the meter is `meter'
  recorded,     \* history: the record calls made, in order
  summary,      \* <<the consumer and the result of the last getSummary>>,
                \*   <<>> once a call was recorded since
  \* an Authenticator on its own (SpecAuth)
  authenticator,  \* Authenticator: [config, keyMap]
  credentials,    \* authenticate: credentials
  authenticated,  \* <<what the last authenticate returned>>, <<>> once the
                  \*   configuration or the clock changed since
  \* the servers of a ServerRegistry and their tools (SpecTools)
  catalog,        \* [servers, tools]: the Map's entries in insertion order
  toolOp,         \* <<the last call made on it and what it returned>>
  \* a RequestTracker on its own (SpecTracker)
  tracker,        \* RequestTracker: [active, draining, timers, aborted, ids]
  trackerLog      \* history: the call of drain and its position, the ids
                  \*   completed, timed out and aborted by drain, and the
                  \*   last call made

policyVars == <<pPolicies, pCtx, pServer, pTool, pArgs, pDecision>>

auditVars ==
  <<auditRows, dbOpen, lastHash, hashChain, uuids, writers, instances,
    tampered, verified>>

gatewayVars == <<started, stopped, tools, proxies, windows, meter, calls>>

limiterVars == <<limiter, limits, lastCheck, opened, alone, uncleaned>>

proxyVars == <<mcp, mcpLast, doomed>>

meterVars == <<recorded, summary>>

authVars == <<authenticator, credentials, authenticated>>

toolVars == <<catalog, toolOp>>

trackerVars == <<tracker, trackerLog>>

unitVars ==
  <<limiterVars, proxyVars, meterVars, authVars, toolVars, trackerVars>>

registryVars == <<registry>>

vars == <<policyVars, now, auditVars, gatewayVars, unitVars, registryVars>>

Undefined == <<"<undefined>">>

Truthy(s) == s # Undefined /\ s # <<>>

(***************************************************************************)
(* Character strings used by the configurations and calls of the model.    *)
(***************************************************************************)
Star == <<"*">>

GetStar == <<"g", "e", "t", "_", "*">>

StarX == <<"*", "_", "x">>

GetX == <<"g", "e", "t", "_", "x">>

DeleteX == <<"d", "e", "l", "e", "t", "e", "_", "x">>

DeleteStar == <<"d", "e", "l", "e", "t", "e", "_", "*">>

Pay == <<"p", "a", "y">>

Fred == <<"f", "r", "e", "d">>

(***************************************************************************)
(* policy.ts: globMatch                                                    *)
(***************************************************************************)
StartsWith(value, prefix) ==
  /\ Len(prefix) <= Len(value)
  /\ SubSeq(value, 1, Len(prefix)) = prefix

EndsWith(value, suffix) ==
  /\ Len(suffix) <= Len(value)
  /\ SubSeq(value, Len(value) - Len(suffix) + 1, Len(value)) = suffix

globMatch(pattern, value) ==
  IF pattern = Star THEN TRUE
  ELSE IF Len(pattern) > 0 /\ pattern[Len(pattern)] = "*"
    THEN StartsWith(value, SubSeq(pattern, 1, Len(pattern) - 1))
  ELSE IF Len(pattern) > 0 /\ pattern[1] = "*"
    THEN EndsWith(value, SubSeq(pattern, 2, Len(pattern)))
  ELSE pattern = value

(***************************************************************************)
(* policy.ts: evaluateCondition.  An argument value is a JavaScript string *)
(* or number; String(actual) renders a number in decimal.  A condition     *)
(* value is a string or an array of strings.  The regular expressions of   *)
(* the model are "^pro" (a prefix test) and "(" (which does not compile).  *)
(***************************************************************************)
NumStr == <<"1", "2">>

JsString(v) == IF v.type = "number" THEN NumStr[v.num] ELSE v.str

RECURSIVE JoinComma(_)
JoinComma(items) ==
  IF items = <<>> THEN ""
  ELSE IF Len(items) = 1 THEN items[1]
  ELSE items[1] \o "," \o JoinComma(Tail(items))

CondValueString(value) ==
  IF value.isArray THEN JoinComma(value.items) ELSE value.str

RegExpCompiles(source) == source # "("

RegExpTest(source, s) ==
  IF source = "^pro" THEN s \in {"prod", "production"}
  ELSE s = source

evaluateCondition(condition, args) ==
  IF condition.param \notin DOMAIN args THEN FALSE
  ELSE LET actual == args[condition.param] IN
    CASE condition.operator = "eq" ->
           JsString(actual) = CondValueString(condition.value)
      [] condition.operator = "neq" ->
           JsString(actual) # CondValueString(condition.value)
      [] condition.operator = "in" ->
           /\ condition.value.isArray
           /\ \E i \in 1..Len(condition.value.items) :
                condition.value.items[i] = JsString(actual)
      [] condition.operator = "regex" ->
           /\ RegExpCompiles(CondValueString(condition.value))
           /\ RegExpTest(CondValueString(condition.value), JsString(actual))
      [] OTHER -> FALSE

(***************************************************************************)
(* policy.ts: PolicyEngine.evaluate                                        *)
(***************************************************************************)
RoleMatchEvery(policy, ctx) ==
  \A i \in 1..Len(ctx.roles) :
    \E j \in 1..Len(policy.roles) : policy.roles[j] = ctx.roles[i]

RoleMatch(policy, ctx) ==
  \E j \in 1..Len(policy.roles) :
    \/ policy.roles[j] = "*"
    \/ \E i \in 1..Len(ctx.roles) : ctx.roles[i] = policy.roles[j]

ScopeMatch(rule, serverId, toolName) ==
  /\ ~(Truthy(rule.server) /\ ~globMatch(rule.server, serverId))
  /\ ~(Truthy(rule.tool) /\ ~globMatch(rule.tool, toolName))

RECURSIVE PolicyRules(_, _, _, _)
PolicyRules(policy, serverId, toolName, k) ==
  IF k > Len(policy.rules) THEN <<>>
  ELSE (IF ScopeMatch(policy.rules[k], serverId, toolName)
          THEN <<[rule |-> policy.rules[k], policyName |-> policy.name]>>
          ELSE <<>>)
       \o PolicyRules(policy, serverId, toolName, k + 1)

RECURSIVE ApplicableRules(_, _, _, _, _)
ApplicableRules(policies, ctx, serverId, toolName, p) ==
  IF p > Len(policies) THEN <<>>
  ELSE (IF RoleMatch(policies[p], ctx)
          THEN PolicyRules(policies[p], serverId, toolName, 1)
          ELSE <<>>)
       \o ApplicableRules(policies, ctx, serverId, toolName, p + 1)

Specificity(rule) ==
  (IF Truthy(rule.server) /\ rule.server # Star THEN 1 ELSE 0)
  + (IF Truthy(rule.tool) /\ rule.tool # Star THEN 1 ELSE 0)

ServerSpecificity(rule) ==
  IF Truthy(rule.server) /\ rule.server # Star THEN 1 ELSE 0

WithSpecificity(applicable, n) ==
  SelectSeq(applicable, LAMBDA a : Specificity(a.rule) = n)

SortServerFirst(applicable) ==
  SelectSeq(applicable, LAMBDA a : ServerSpecificity(a.rule) = 1)
  \o SelectSeq(applicable, LAMBDA a : ServerSpecificity(a.rule) = 0)

\* Array.prototype.sort is stable: rules of equal specificity keep their
\* configuration order.
SortBySpecificity(applicable) ==
  WithSpecificity(applicable, 2) \o WithSpecificity(applicable, 1)
  \o WithSpecificity(applicable, 0)

ConditionsMet(rule, args) ==
  IF rule.hasConditions /\ args.present
    THEN \A i \in 1..Len(rule.conditions) :
           evaluateCondition(rule.conditions[i], args.map)
    ELSE TRUE

OrStar(s) == IF Truthy(s) THEN s ELSE Star

RuleDecision(item) ==
  IF item.rule.action = "deny"
    THEN [allowed |-> FALSE,
          reason |-> <<"Denied by policy \"", item.policyName, "\": ">>
                    \o OrStar(item.rule.tool) \o <<" on ">>
                    \o OrStar(item.rule.server),
          matchedRule |-> <<item.rule>>]
    ELSE [allowed |-> TRUE, reason |-> Undefined,
          matchedRule |-> <<item.rule>>]

RECURSIVE Walk(_, _, _)
Walk(sorted, args, k) ==
  IF k > Len(sorted)
    THEN [allowed |-> FALSE, reason |-> <<"No matching rule">>,
          matchedRule |-> <<>>]
  ELSE IF ~ConditionsMet(sorted[k].rule, args) THEN Walk(sorted, args, k + 1)
  ELSE IF sorted[k].rule.action \in {"deny", "allow"}
    THEN RuleDecision(sorted[k])
  ELSE Walk(sorted, args, k + 1)

Decide(applicable, args) ==
  IF Len(applicable) = 0
    THEN [allowed |-> FALSE,
          reason |-> <<"No matching policy rules (default deny)">>,
          matchedRule |-> <<>>]
    ELSE Walk(SortBySpecificity(applicable), args, 1)

evaluate(policies, ctx, serverId, toolName, args) ==
  Decide(ApplicableRules(policies, ctx, serverId, toolName, 1), args)

(***************************************************************************)
(* Configurations and calls of the policy model.                           *)
(***************************************************************************)
MaxRules == 3

Rule(server, tool, action) ==
  [server |-> server, tool |-> tool, action |-> action,
   hasConditions |-> FALSE, conditions |-> <<>>]

CondRule(server, tool, action, conditions) ==
  [server |-> server, tool |-> tool, action |-> action,
   hasConditions |-> TRUE, conditions |-> conditions]

Cond(param, operator, str) ==
  [param |-> param, operator |-> operator,
   value |-> [isArray |-> FALSE, items |-> <<>>, str |-> str]]

CondIn(param, items) ==
  [param |-> param, operator |-> "in",
   value |-> [isArray |-> TRUE, items |-> items, str |-> ""]]

GetAllow == Rule(Undefined, GetStar, "allow")

WildcardDeny == Rule(Undefined, Star, "deny")

PayDeny == Rule(Pay, Star, "deny")

PayAllow == Rule(Pay, Undefined, "allow")

SuffixDenyProd == CondRule(Undefined, StarX, "deny", <<Cond("env", "eq", "prod")>>)

PayGetAllowPro ==
  CondRule(Pay, GetX, "allow",
           <<Cond("env", "regex", "^pro"), CondIn("n", <<"1", "2">>)>>)

RulePool ==
  {GetAllow, WildcardDeny, PayDeny, PayAllow, SuffixDenyProd, PayGetAllowPro}

\* The policies of the engine's own test (policy.test.ts), without the
\* search_* rule and with "pay" as the restricted server.
TestPolicies ==
  << [id |-> "reader", name |-> "Reader", roles |-> <<"reader">>,
      rules |-> <<GetAllow, Rule(Undefined, DeleteStar, "deny"), WildcardDeny>>],
     [id |-> "admin", name |-> "Admin", roles |-> <<"admin">>,
      rules |-> <<Rule(Undefined, Undefined, "allow")>>],
     [id |-> "restricted", name |-> "Restricted server",
      roles |-> <<"reader">>, rules |-> <<PayDeny>>] >>

\* The reader policy followed by the server restriction.
RestrictionPolicies ==
  << [id |-> "reader", name |-> "Reader", roles |-> <<"reader">>,
      rules |-> <<GetAllow, WildcardDeny>>],
     [id |-> "restricted", name |-> "Restricted server",
      roles |-> <<"reader">>, rules |-> <<PayDeny>>] >>

\* config.ts: DEFAULT_CONFIG.policies
DefaultPolicies ==
  << [id |-> "default", name |-> "Allow all", roles |-> <<"*">>,
      rules |-> <<Rule(Undefined, Undefined, "allow")>>] >>

RuleLists == UNION {[1..n -> RulePool] : n \in 1..MaxRules}

GeneratedPolicies ==
  {<<[id |-> "p", name |-> "P", roles |-> roles, rules |-> rules]>> :
     roles \in {<<"reader">>, <<"*">>}, rules \in RuleLists}

PolicySets ==
  {TestPolicies, RestrictionPolicies, DefaultPolicies} \cup GeneratedPolicies

Context(consumerId, apiKeyId, roles, rateLimit) ==
  [consumerId |-> consumerId, apiKeyId |-> apiKeyId, roles |-> roles,
   rateLimit |-> rateLimit]

ReaderCtx == Context(<<"u", "1">>, <<"k", "1">>, <<"reader">>, 0)

AdminCtx == Context(<<"a", "1">>, <<"k", "2">>, <<"admin">>, 0)

NoRoleCtx == Context(<<"n", "0">>, <<"k", "3">>, <<>>, 0)

StrArg(s) == [type |-> "string", str |-> s, num |-> 0]

NumArg(n) == [type |-> "number", str |-> "", num |-> n]

NoArgs == [present |-> FALSE, map |-> <<>>]

EmptyArgs == [present |-> TRUE, map |-> <<>>]

ProdArgs == [present |-> TRUE, map |-> [env |-> StrArg("prod"), n |-> NumArg(1)]]

DevArgs == [present |-> TRUE, map |-> [env |-> StrArg("dev")]]

(***************************************************************************)
(* The clock.  toISOString() renders an instant; the model renders it as   *)
(* "T" followed by the milliseconds in decimal, which like the ISO form is *)
(* one string per millisecond.                                             *)
(***************************************************************************)
\* The default timeout of a proxy request; the clock of the model advances
\* by that much at a time.
TimeoutMs == 30000

TickMs == TimeoutMs

MaxTicks == 1

Digits == <<"0", "1", "2", "3", "4", "5", "6", "7", "8", "9">>

RECURSIVE Decimal(_)
Decimal(n) ==
  IF n < 10 THEN <<Digits[n + 1]>>
  ELSE Decimal(n \div 10) \o <<Digits[(n % 10) + 1]>>

toISOString(ms) == <<"T">> \o Decimal(ms)

Tick ==
  /\ now + TickMs <= MaxTicks * TickMs
  /\ now' = now + TickMs

(***************************************************************************)
(* audit.ts: AuditLog.  createHash("sha256") is modelled as an injective   *)
(* function of the hashed string: the digest of data is data behind the    *)
(* marker "sha256:", so two digests are equal exactly when the hashed      *)
(* strings are, and no digest is the string "genesis".                     *)
(***************************************************************************)
Genesis == <<"genesis">>

ResponseLimit == 10000

MaxRows == 3

MaxInstances == 2

Sha256Hex(data) == <<"sha256:">> \o data

OrEmpty(s) == IF Truthy(s) THEN s ELSE <<>>

Slice(s, n) == IF Len(s) <= n THEN s ELSE SubSeq(s, 1, n)

\* A template literal renders undefined as the text "undefined".
TemplateString(s) == IF s = Undefined THEN <<"undefined">> ELSE s

computeHash(entry) ==
  Sha256Hex(entry.id \o <<"|">> \o entry.timestamp \o <<"|">>
            \o TemplateString(entry.consumerId) \o <<"|">>
            \o TemplateString(entry.serverId) \o <<"|">>
            \o TemplateString(entry.tool) \o <<"|">>
            \o TemplateString(entry.status) \o <<"|">>
            \o OrEmpty(entry.prevHash))

randomUUID(n) == <<"u">> \o Decimal(n)

\* The constructor's lastHash: "genesis", replaced by loadLastHash with the
\* hash of the row of greatest rowid when the table has one.
loadLastHash(rows) ==
  IF rows = <<>> THEN Genesis ELSE rows[Len(rows)].hash

\* log(): the entry built from partial, before it is stored.
NewEntry(partial, n, ms, chain, last) ==
  LET prev == IF chain THEN last ELSE Undefined
      base == [id |-> randomUUID(n), timestamp |-> toISOString(ms),
               consumerId |-> partial.consumerId, serverId |-> partial.serverId,
               tool |-> partial.tool, status |-> partial.status,
               prevHash |-> prev]
  IN [id |-> base.id, timestamp |-> base.timestamp,
      consumerId |-> partial.consumerId, apiKeyId |-> partial.apiKeyId,
      serverId |-> partial.serverId, tool |-> partial.tool,
      args |-> partial.args, response |-> partial.response,
      latencyMs |-> partial.latencyMs, status |-> partial.status,
      error |-> partial.error, prevHash |-> prev, hash |-> computeHash(base)]

\* log(): lastHash after the entry was built (it is assigned before the
\* INSERT runs).
NextLastHash(chain, last, entry) == IF chain THEN entry.hash ELSE last

\* A variant of Row that stores the response as it was given
RowWhole(entry) == entry

\* The row INSERTed for an entry; undefined is bound as NULL.
Row(entry) == [entry EXCEPT !.response = Slice(entry.response, ResponseLimit)]

\* The table's NOT NULL constraints: the INSERT of a row that has no
\* consumer_id, server_id, tool or status fails.
NotNullColumns == {"id", "timestamp", "consumerId", "serverId", "tool", "status", "hash"}

InsertFails(row) == \E column \in NotNullColumns : row[column] = Undefined

\* verify(): the rows in rowid order, from prevHash "genesis".
RECURSIVE VerifyFrom(_, _, _)
VerifyFrom(rows, k, prevHash) ==
  IF k > Len(rows) THEN [valid |-> TRUE, brokenAt |-> Undefined]
  ELSE IF rows[k].prevHash # prevHash
    THEN [valid |-> FALSE, brokenAt |-> rows[k].id]
  ELSE IF rows[k].hash # computeHash(rows[k])
    THEN [valid |-> FALSE, brokenAt |-> rows[k].id]
  ELSE VerifyFrom(rows, k + 1, rows[k].hash)

verify(rows, chain) ==
  IF ~chain THEN [valid |-> TRUE, brokenAt |-> Undefined]
  ELSE VerifyFrom(rows, 1, Genesis)

(***************************************************************************)
(* The AuditLog operations as steps.  An INSERT that fails throws, after   *)
(* lastHash was advanced.                                                  *)
(***************************************************************************)
Partial(consumerId, apiKeyId, serverId, tool, args, response, latencyMs, status, error) ==
  [consumerId |-> consumerId, apiKeyId |-> apiKeyId, serverId |-> serverId,
   tool |-> tool, args |-> args, response |-> response,
   latencyMs |-> latencyMs, status |-> status, error |-> error]

EmptyObject == <<"{", "}">>

AuditPartials ==
  { Partial(<<"u", "1">>, <<"k", "1">>, Fred, GetX, EmptyObject, EmptyObject,
            10, <<"success">>, Undefined),
    Partial(<<"n", "0">>, <<"k", "3">>, Pay, DeleteX, EmptyObject, <<>>,
            0, <<"denied">>, <<"No matching rule">>),
    \* what callTool logs for a tools/call request that names no tool
    Partial(<<"u", "1">>, <<"k", "1">>, <<"unknown">>, Undefined, EmptyObject,
            <<>>, 0, <<"error">>, <<"Tool not found">>) }

\* new AuditLog(config) on the file: the connection opens, lastHash is
\* "genesis" and loadLastHash() replaces it by the last row's hash.
AuditOpen ==
  /\ ~dbOpen
  /\ instances < MaxInstances
  /\ dbOpen' = TRUE
  /\ lastHash' = loadLastHash(auditRows)
  /\ instances' = instances + 1
  /\ UNCHANGED <<auditRows, hashChain, uuids, writers, tampered, verified>>

\* close()
AuditClose ==
  /\ dbOpen
  /\ dbOpen' = FALSE
  /\ UNCHANGED <<auditRows, lastHash, hashChain, uuids, writers, instances,
                 tampered, verified>>

\* log(partial) on the log in state st = [rows, lastHash, uuids, writers]:
\* the state it leaves, and whether the INSERT threw (the connection is
\* closed, or the row violates a constraint of the table).
log(st, partial) ==
  LET entry == NewEntry(partial, st.uuids + 1, now, hashChain, st.lastHash)
      inserted == dbOpen /\ ~InsertFails(Row(entry))
  IN [rows |-> IF inserted THEN Append(st.rows, Row(entry)) ELSE st.rows,
      lastHash |-> NextLastHash(hashChain, st.lastHash, entry),
      uuids |-> st.uuids + 1,
      writers |-> IF inserted
                    THEN Append(st.writers, [instance |-> instances,
                                             response |-> partial.response])
                    ELSE st.writers,
      threw |-> ~inserted]

AuditState ==
  [rows |-> auditRows, lastHash |-> lastHash, uuids |-> uuids,
   writers |-> writers, threw |-> FALSE]

\* The log's variables after its calls left it in state st.
AuditBecomes(st) ==
  /\ auditRows' = st.rows
  /\ lastHash' = st.lastHash
  /\ uuids' = st.uuids
  /\ writers' = st.writers
  /\ verified' = IF st.rows = auditRows THEN verified ELSE <<>>
  /\ UNCHANGED <<dbOpen, hashChain, instances, tampered>>

LogEffect(partial) == AuditBecomes(log(AuditState, partial))

AuditLogCall(partial) ==
  /\ uuids < MaxRows
  /\ LogEffect(partial)

\* verify()
AuditVerify ==
  /\ dbOpen
  /\ verified' = <<verify(auditRows, hashChain)>>
  /\ UNCHANGED <<auditRows, dbOpen, lastHash, hashChain, uuids, writers,
                 instances, tampered>>

\* A row of the file is modified behind the log's back: one column of row k
\* gets a value different from the stored one.
Columns ==
  {"id", "timestamp", "consumerId", "apiKeyId", "serverId", "tool", "args",
   "response", "latencyMs", "status", "error", "prevHash", "hash"}

Modified(row, column) ==
  [row EXCEPT ![column] =
     IF column = "latencyMs" THEN @ + 1
     ELSE IF @ = Undefined THEN <<"x">> ELSE Append(@, "x")]

Tamper(k, column) ==
  /\ tampered = <<>>
  /\ k \in 1..Len(auditRows)
  /\ auditRows' = [auditRows EXCEPT ![k] = Modified(@, column)]
  /\ tampered' = <<k, column>>
  /\ verified' = <<>>
  /\ UNCHANGED <<dbOpen, lastHash, hashChain, uuids, writers, instances>>

(***************************************************************************)
(* auth.ts: Authenticator.  keyMap maps the key of every configured        *)
(* ApiKeyConfig to it; of two records with one key the later one stays.    *)
(* null is the record Null.  expiresAt is undefined, or a                  *)
(* string that new Date() parses (the strings toISOString writes), or one  *)
(* it does not parse, which gives an invalid date.                         *)
(***************************************************************************)
Null == [null |-> TRUE]

\* The number a string of decimal digits writes
RECURSIVE ParseDecimal(_)
ParseDecimal(digits) ==
  IF digits = <<>> THEN 0
  ELSE 10 * ParseDecimal(SubSeq(digits, 1, Len(digits) - 1))
       + ((CHOOSE d \in 1..10 : Digits[d] = digits[Len(digits)]) - 1)

\* new Date(s): the instant, or an invalid date
NewDate(s) ==
  IF s # <<>> /\ Head(s) = "T"
       /\ \A k \in 2..Len(s) : \E d \in 1..10 : Digits[d] = s[k]
    THEN [valid |-> TRUE, ms |-> ParseDecimal(Tail(s))]
    ELSE [valid |-> FALSE, ms |-> 0]

\* a < b on two dates: false when either is invalid (NaN)
DateBefore(a, b) == a.valid /\ b.valid /\ a.ms < b.ms

\* hashKey(key)
hashKey(key) == Sha256Hex(key)

\* constructor(config) and reload(config): lines 7-13 and 56-64
NewAuthenticator(config) ==
  [config |-> config,
   keyMap |-> [key \in {config.keys[i].key : i \in 1..Len(config.keys)} |->
                 LET last == CHOOSE i \in 1..Len(config.keys) :
                               /\ config.keys[i].key = key
                               /\ \A j \in 1..Len(config.keys) :
                                    config.keys[j].key = key => j <= i
                 IN config.keys[last]]]

\* A variant of authenticateApiKey that leaves out the check of the expiry
authenticateApiKeyNoExpiry(keyMap, key, ms) ==
  LET hashed == hashKey(key)
      found == key \in DOMAIN keyMap \/ hashed \in DOMAIN keyMap
      config == IF key \in DOMAIN keyMap THEN keyMap[key] ELSE keyMap[hashed]
  IN IF ~found THEN Null
     ELSE IF ~config.enabled THEN Null
     ELSE Context(config.consumerId, config.id, config.roles, config.rateLimit)

\* authenticateApiKey(key) at time ms: lines 30-54
authenticateApiKey(keyMap, key, ms) ==
  LET hashed == hashKey(key)
      found == key \in DOMAIN keyMap \/ hashed \in DOMAIN keyMap
      config == IF key \in DOMAIN keyMap THEN keyMap[key] ELSE keyMap[hashed]
  IN IF ~found THEN Null
     ELSE IF ~config.enabled THEN Null
     ELSE IF Truthy(config.expiresAt)
               /\ DateBefore(NewDate(config.expiresAt), [valid |-> TRUE, ms |-> ms])
       THEN Null
     ELSE Context(config.consumerId, config.id, config.roles, config.rateLimit)

\* authenticate(credentials) at time ms: lines 15-28
authenticate(a, creds, ms) ==
  IF a.config.type = "none"
    THEN Context(<<"anonymous">>, <<"none">>, <<"*">>, 0)
  ELSE IF ~Truthy(creds) THEN Null
  ELSE IF a.config.type = "api-key" THEN authenticateApiKey(a.keyMap, creds, ms)
  ELSE Null

(***************************************************************************)
(* Maps.  A JavaScript Map whose iteration order is never observed is a    *)
(* function on its key set; the empty Map is the empty function.           *)
(***************************************************************************)
EmptyMap == <<>>

Put(map, key, value) ==
  [k \in (DOMAIN map) \cup {key} |-> IF k = key THEN value ELSE map[k]]

(***************************************************************************)
(* ratelimit.ts: RateLimiter.  windows maps a key to [count, resetAt].     *)
(* The burst multiplier is the rational num/den, so that                   *)
(* Math.ceil(limit * burstMultiplier) is computed in the integers.         *)
(***************************************************************************)
WindowMs == 60000

Ceil(num, den) == -((-num) \div den)

\* Variants of check used to test the claims about it: one that admits one
\* call more, one that keeps a single window for all keys, one that never
\* discards a window.
checkOneMore(limiter_, wins, key, limitOverride, ms) ==
  LET limit == IF limitOverride # 0 THEN limitOverride
               ELSE limiter_.defaultPerMinute
      fresh == key \notin DOMAIN wins \/ ms >= wins[key].resetAt
      window == IF fresh THEN [count |-> 0, resetAt |-> ms + WindowMs]
                ELSE wins[key]
      maxBurst == Ceil(limit * limiter_.burstMultiplier.num,
                       limiter_.burstMultiplier.den)
  IN IF window.count > maxBurst
       THEN [allowed |-> FALSE, remaining |-> 0, resetAt |-> window.resetAt,
             windows |-> Put(wins, key, window)]
       ELSE [allowed |-> TRUE, remaining |-> maxBurst - (window.count + 1),
             resetAt |-> window.resetAt,
             windows |-> Put(wins, key, [window EXCEPT !.count = @ + 1])]

checkShared(limiter_, wins, key, limitOverride, ms) ==
  LET limit == IF limitOverride # 0 THEN limitOverride
               ELSE limiter_.defaultPerMinute
      fresh == wins = <<>> \/ \E k \in DOMAIN wins : ms >= wins[k].resetAt
      window == IF fresh THEN [count |-> 0, resetAt |-> ms + WindowMs]
                ELSE wins[CHOOSE k \in DOMAIN wins : TRUE]
      maxBurst == Ceil(limit * limiter_.burstMultiplier.num,
                       limiter_.burstMultiplier.den)
      all(w) == [k \in (DOMAIN wins) \cup {key} |-> w]
  IN IF window.count >= maxBurst
       THEN [allowed |-> FALSE, remaining |-> 0, resetAt |-> window.resetAt,
             windows |-> all(window)]
       ELSE [allowed |-> TRUE, remaining |-> maxBurst - (window.count + 1),
             resetAt |-> window.resetAt,
             windows |-> all([window EXCEPT !.count = @ + 1])]

checkNoExpiry(limiter_, wins, key, limitOverride, ms) ==
  LET limit == IF limitOverride # 0 THEN limitOverride
               ELSE limiter_.defaultPerMinute
      fresh == key \notin DOMAIN wins
      window == IF fresh THEN [count |-> 0, resetAt |-> ms + WindowMs]
                ELSE wins[key]
      maxBurst == Ceil(limit * limiter_.burstMultiplier.num,
                       limiter_.burstMultiplier.den)
  IN IF window.count >= maxBurst
       THEN [allowed |-> FALSE, remaining |-> 0, resetAt |-> window.resetAt,
             windows |-> Put(wins, key, window)]
       ELSE [allowed |-> TRUE, remaining |-> maxBurst - (window.count + 1),
             resetAt |-> window.resetAt,
             windows |-> Put(wins, key, [window EXCEPT !.count = @ + 1])]

\* check(key, limitOverride) at time ms on a limiter [defaultPerMinute,
\* burstMultiplier]: the result returned, and windows as the call leaves it.
check(limiter_, wins, key, limitOverride, ms) ==
  LET limit == IF limitOverride # 0 THEN limitOverride
               ELSE limiter_.defaultPerMinute
      fresh == key \notin DOMAIN wins \/ ms >= wins[key].resetAt
      window == IF fresh THEN [count |-> 0, resetAt |-> ms + WindowMs]
                ELSE wins[key]
      maxBurst == Ceil(limit * limiter_.burstMultiplier.num,
                       limiter_.burstMultiplier.den)
  IN IF window.count >= maxBurst
       THEN [allowed |-> FALSE, remaining |-> 0, resetAt |-> window.resetAt,
             windows |-> Put(wins, key, window)]
       ELSE [allowed |-> TRUE, remaining |-> maxBurst - (window.count + 1),
             resetAt |-> window.resetAt,
             windows |-> Put(wins, key, [window EXCEPT !.count = @ + 1])]

(***************************************************************************)
(* meter.ts: Meter.  buckets is the Map in insertion order, a sequence of  *)
(* [key, calls, errors, totalLatencyMs]; flush() iterates it in that order.*)
(* getPeriod() names the UTC hour of the clock; the model names it "P"     *)
(* followed by the number of the hour.                                     *)
(***************************************************************************)
HourMs == 3600000

getPeriod(ms) == <<"P">> \o Decimal(ms \div HourMs)

\* key.split("|")
RECURSIVE SplitBar(_, _)
SplitBar(s, part) ==
  IF s = <<>> THEN <<part>>
  ELSE IF Head(s) = "|" THEN <<part>> \o SplitBar(Tail(s), <<>>)
  ELSE SplitBar(Tail(s), Append(part, Head(s)))

\* An element of an array that may be shorter: undefined past its end.
At(array, i) == IF i <= Len(array) THEN array[i] ELSE Undefined

MeterEntryOf(bucket) ==
  LET parts == SplitBar(bucket.key, <<>>)
      period == At(parts, 4)
  IN [consumerId |-> At(parts, 1), serverId |-> At(parts, 2),
      tool |-> At(parts, 3), calls |-> bucket.calls,
      errors |-> bucket.errors, totalLatencyMs |-> bucket.totalLatencyMs,
      periodStart |-> period \o <<":00:00.000Z">>,
      periodEnd |-> period \o <<":59:59.999Z">>]

\* flush() on a meter m = [buckets, history, currentPeriod]
flush(m) ==
  [m EXCEPT !.history = @ \o [i \in 1..Len(m.buckets) |-> MeterEntryOf(m.buckets[i])],
            !.buckets = <<>>]

BucketIndex(bucketsSeq, key) ==
  IF \E i \in 1..Len(bucketsSeq) : bucketsSeq[i].key = key
    THEN CHOOSE i \in 1..Len(bucketsSeq) : bucketsSeq[i].key = key
    ELSE 0

\* record(consumerId, serverId, tool, latencyMs, isError) at time ms
record(enabled, m, consumerId, serverId, tool, latencyMs, isError, ms) ==
  IF ~enabled THEN m
  ELSE
    LET period == getPeriod(ms)
        m1 == IF period # m.currentPeriod
                THEN [flush(m) EXCEPT !.currentPeriod = period]
                ELSE m
        key == consumerId \o <<"|">> \o serverId \o <<"|">> \o tool
                 \o <<"|">> \o period
        at == BucketIndex(m1.buckets, key)
        had == IF at = 0
                 THEN Append(m1.buckets,
                             [key |-> key, calls |-> 0, errors |-> 0,
                              totalLatencyMs |-> 0])
                 ELSE m1.buckets
        i == IF at = 0 THEN Len(had) ELSE at
    IN [m1 EXCEPT !.buckets =
          [had EXCEPT ![i] =
             [@ EXCEPT !.calls = @ + 1,
                       !.errors = IF isError THEN @ + 1 ELSE @,
                       !.totalLatencyMs = @ + latencyMs]]]

\* The sum of a sequence of numbers
RECURSIVE Sum(_)
Sum(numbers) ==
  IF numbers = <<>> THEN 0 ELSE Head(numbers) + Sum(Tail(numbers))

\* A variant of Round that truncates
RoundDown(num, den) == num \div den

\* Math.round(num / den) for num >= 0 and den > 0
Round(num, den) == (2 * num + den) \div (2 * den)

\* getUsage({consumerId}) on a meter m: the meter after its flush, and the
\* entries returned.  A consumerId that is undefined or empty filters
\* nothing (lines 71-74); serverId, from and to are not given.
getUsage(m, consumerId) ==
  LET flushed == flush(m)
      mine(entry) == entry.consumerId = consumerId
  IN [meter |-> flushed,
      entries |-> IF Truthy(consumerId) THEN SelectSeq(flushed.history, mine)
                  ELSE flushed.history]

\* getSummary(consumerId): lines 82-107.  byServer and byTool are the
\* objects built by the loop: a key for every serverId and tool of the
\* entries, with the sum of their calls.
getSummary(m, consumerId) ==
  LET usage == getUsage(m, consumerId)
      entries == usage.entries
      callsOf(list) == [k \in 1..Len(list) |-> list[k].calls]
      totalCalls == Sum(callsOf(entries))
      totalLatency ==
        Sum([k \in 1..Len(entries) |-> entries[k].totalLatencyMs])
      seen == {entries[k] : k \in 1..Len(entries)}
      byServer == [s \in {entry.serverId : entry \in seen} |->
                     LET here(entry) == entry.serverId = s
                     IN Sum(callsOf(SelectSeq(entries, here)))]
      byTool == [t \in {entry.tool : entry \in seen} |->
                   LET here(entry) == entry.tool = t
                   IN Sum(callsOf(SelectSeq(entries, here)))]
  IN [meter |-> usage.meter,
      result |-> [totalCalls |-> totalCalls,
                  totalErrors |->
                    Sum([k \in 1..Len(entries) |-> entries[k].errors]),
                  avgLatencyMs |-> IF totalCalls > 0
                                     THEN Round(totalLatency, totalCalls)
                                     ELSE 0,
                  byServer |-> byServer, byTool |-> byTool]]

(***************************************************************************)
(* proxy.ts: McpProxy.  A proxy is [requestId, pending]; pending maps the  *)
(* id of a request to the call awaiting it and the instant its timer is    *)
(* due.                                                                    *)
(***************************************************************************)
ToolsCall == <<"tools/call">>

TimeoutMessage(method) ==
  <<"MCP request timeout after ">> \o Decimal(TimeoutMs) \o <<"ms: ">> \o method

DestroyedMessage == <<"Proxy destroyed">>

\* request(method, params) at time ms by call c
request(proxy, c, ms) ==
  LET id == proxy.requestId + 1 IN
  [proxy EXCEPT !.requestId = id,
                !.pending = Put(@, id, [call |-> c, deadline |-> ms + TimeoutMs])]

Without(map, key) == [k \in (DOMAIN map) \ {key} |-> map[k]]

\* The messages a backend writes for request id: a result, an error with a
\* message, or an error member that is null beside no result.
ReplyKinds == {"result", "error", "nullError"}

ResultValue == EmptyObject

BackendError == <<"boom">>

\* What handleMessage settles the pending promise with.
Settlement(kind) ==
  IF kind = "error"
    THEN [state |-> "rejected", value |-> Undefined, message |-> BackendError]
  ELSE IF kind = "nullError"
    THEN [state |-> "resolved", value |-> Undefined, message |-> Undefined]
  ELSE [state |-> "resolved", value |-> ResultValue, message |-> Undefined]

Rejection(message) ==
  [state |-> "rejected", value |-> Undefined, message |-> message]

(***************************************************************************)
(* proxy.ts: McpProxy in full.  The proxy is                               *)
(*   requestId   the last id issued                                        *)
(*   timeoutMs   the deadline of a request, from the backend's config      *)
(*   pending     the correlation table: id -> the timer of the entry       *)
(*   timers      the timers armed with setTimeout and neither fired nor    *)
(*               cleared: timer -> the instant it is due                   *)
(*   promises    for each request made, the instant its deadline falls and *)
(*               the calls made of its resolve and reject, in order; the   *)
(*               promise settles with the first of them.                   *)
(* The timer of request id is named id.                                    *)
(***************************************************************************)
NewProxy(timeoutMs) ==
  [requestId |-> 0, timeoutMs |-> timeoutMs, pending |-> EmptyMap,
   timers |-> EmptyMap, promises |-> EmptyMap]

\* The calls of resolve and reject a promise has received, one more.
Settled(promises, id, settlement) ==
  [promises EXCEPT ![id].calls = Append(@, settlement)]

\* Variants used to test the claims: a reply that leaves the timer armed, a
\* request that arms no timer, a destroy that leaves the timers armed.
handleMessageKeepTimer(p, id, kind) ==
  IF kind # "empty" /\ id \in DOMAIN p.pending
    THEN [p EXCEPT !.pending = Without(@, id),
                   !.promises = Settled(@, id, Settlement(kind))]
    ELSE p

sendRequestNoTimer(p, ms) ==
  LET id == p.requestId + 1 IN
  [p EXCEPT !.requestId = id,
            !.pending = Put(@, id, id),
            !.promises = Put(@, id, [deadline |-> ms + p.timeoutMs, calls |-> <<>>])]

destroyKeepTimers(p) ==
  [p EXCEPT !.pending = EmptyMap,
            !.promises =
              [id \in DOMAIN p.promises |->
                 IF id \in DOMAIN p.pending
                   THEN [p.promises[id] EXCEPT
                           !.calls = Append(@, Rejection(DestroyedMessage))]
                   ELSE p.promises[id]]]

\* request("tools/call", params) at time ms: lines 59-73
sendRequest(p, ms) ==
  LET id == p.requestId + 1 IN
  [p EXCEPT !.requestId = id,
            !.timers = Put(@, id, ms + p.timeoutMs),
            !.pending = Put(@, id, id),
            !.promises = Put(@, id, [deadline |-> ms + p.timeoutMs, calls |-> <<>>])]

\* handleMessage(msg) for a message that carries id: a result, an error, an
\* error that is null, or neither member ("empty"): lines 42-57
handleMessage(p, id, kind) ==
  IF kind # "empty" /\ id \in DOMAIN p.pending
    THEN [p EXCEPT !.timers = Without(@, p.pending[id]),
                   !.pending = Without(@, id),
                   !.promises = Settled(@, id, Settlement(kind))]
    ELSE p

\* A variant of processBuffer that hands an object without id to the last
\* request made
processBufferLastId(p, line) ==
  IF line.kind \in {"blank", "text", "null"} THEN p
  ELSE handleMessage(p, IF line.id = 0 THEN p.requestId ELSE line.id,
                     line.reply)

\* processBuffer() on one complete line of the backend's output: lines
\* 26-40.  A line is blank, text that JSON.parse rejects, the JSON null
\* (reading msg.id throws, and the catch swallows it), or an object, whose
\* id is 0 when it has none (a notification).
processBuffer(p, line) ==
  IF line.kind \in {"blank", "text", "null"} THEN p
  ELSE IF line.id = 0 THEN p
  ELSE handleMessage(p, line.id, line.reply)

\* The callback of the timer of request id: lines 63-66
onTimeout(p, id) ==
  [p EXCEPT !.timers = Without(@, id),
            !.pending = Without(@, id),
            !.promises = Settled(@, id, Rejection(TimeoutMessage(ToolsCall)))]

\* destroy(): lines 92-98
destroy(p) ==
  [p EXCEPT !.timers = [t \in (DOMAIN p.timers) \
                                {p.pending[id] : id \in DOMAIN p.pending} |->
                          p.timers[t]],
            !.pending = EmptyMap,
            !.promises =
              [id \in DOMAIN p.promises |->
                 IF id \in DOMAIN p.pending
                   THEN [p.promises[id] EXCEPT
                           !.calls = Append(@, Rejection(DestroyedMessage))]
                   ELSE p.promises[id]]]

(***************************************************************************)
(* registry.ts: ServerRegistry.  tools maps every configured server, in    *)
(* configuration order, to the tools registered for it.                    *)
(***************************************************************************)
(***************************************************************************)
(* registry.ts: ServerRegistry in full, with the child processes.  The     *)
(* registry is                                                             *)
(*   servers    for each configured server, in configuration order, its    *)
(*              ManagedServer: [enabled, status, process, lastError,       *)
(*              restarts]; process is the number of a child, 0 for null    *)
(*   children   the child processes spawned, in order of spawning:         *)
(*              [server, spawned, alive, exitCode, killed, signal,         *)
(*              graceOver], where spawned tells whether the command could  *)
(*              be spawned, killed is ChildProcess.killed, signal the last *)
(*              signal delivered, and graceOver (history) tells that the   *)
(*              timer armed by the stopServer call that terminated the     *)
(*              child has run                                              *)
(*   timers     the timers armed and not yet run: the one of startServer   *)
(*              ("resume") and the one of stopServer ("kill"), each with   *)
(*              the server its closure holds and the instant it is due.    *)
(* The observers startServer registers on a child hold the ManagedServer,  *)
(* not the child.                                                          *)
(***************************************************************************)
StartWaitMs == 100

GraceMs == 5000

\* An exit by signal reports code null; the model writes it NullCode, and
\* NotExited for the code of a child that has not exited.
NullCode == -1

NotExited == -2

ExitCodes == {0, 1, NullCode}

CodeString(code) == IF code = NullCode THEN <<"null">> ELSE Decimal(code)

SpawnErrorMessage == <<"spawn ENOENT">>

ManagedServer(enabled) ==
  [enabled |-> enabled, status |-> "stopped", process |-> 0,
   lastError |-> Undefined, restarts |-> 0]

\* constructor(configs)
NewRegistry(configs) ==
  [servers |-> [i \in 1..Len(configs) |-> ManagedServer(configs[i].enabled)],
   children |-> <<>>,
   timers |-> {}]

Timer(kind, server, child, due) ==
  [kind |-> kind, server |-> server, child |-> child, due |-> due]

\* child.kill(signal): delivered when the child is alive, and then
\* ChildProcess.killed is set.
kill(children, c, signal) ==
  IF children[c].alive
    THEN [children EXCEPT ![c].killed = TRUE, ![c].signal = signal]
    ELSE children

\* The "exit" observer of child c: lines 365-372
onExit(reg, c, code) ==
  LET i == reg.children[c].server IN
  [reg EXCEPT
     !.children[c].alive = FALSE,
     !.children[c].exitCode = code,
     !.servers[i].process = 0,
     !.servers[i].status = IF code # 0 THEN "error" ELSE "stopped",
     !.servers[i].lastError =
        IF code # 0 THEN <<"Exited with code ">> \o CodeString(code) ELSE @]

\* The "error" observer of child c, for a child that could not be spawned:
\* lines 374-378
onError(reg, c) ==
  LET i == reg.children[c].server IN
  [reg EXCEPT
     !.servers[i].status = "error",
     !.servers[i].lastError = SpawnErrorMessage,
     !.servers[i].process = 0]

\* startServer(id) up to its await, at time ms: lines 344-385.  spawned
\* tells whether the command could be spawned; if not, the "error" event is
\* emitted before any other task runs.  An id outside the configuration is
\* an unknown server: the call throws, as it does for a disabled one.
startServer(reg, i, spawned, ms) ==
  LET server == reg.servers[i]
      c == Len(reg.children) + 1
      child == [server |-> i, spawned |-> spawned, alive |-> spawned,
                exitCode |-> NotExited, killed |-> FALSE, signal |-> "none",
                graceOver |-> FALSE]
      begun == [reg EXCEPT
                  !.servers[i].status = "starting",
                  !.servers[i].process = c,
                  !.children = Append(@, child),
                  !.timers = @ \cup {Timer("resume", i, c, ms + StartWaitMs)}]
  IN IF i \notin 1..Len(reg.servers) THEN reg
     ELSE IF ~server.enabled THEN reg
     ELSE IF server.process # 0 /\ server.status = "running" THEN reg
     ELSE IF spawned THEN begun
     ELSE onError(begun, c)

\* startServer(id) after its await: lines 387-391
resumeStart(reg, timer) ==
  [reg EXCEPT
     !.timers = @ \ {timer},
     !.servers[timer.server].status = IF @ = "starting" THEN "running" ELSE @]

\* stopServer(id) at time ms: lines 394-405
stopServer(reg, i, ms) ==
  LET server == reg.servers[i] IN
  IF server.process = 0 THEN reg
  ELSE [reg EXCEPT
          !.children = kill(@, server.process, "SIGTERM"),
          !.timers = @ \cup {Timer("kill", i, server.process, ms + GraceMs)},
          !.servers[i].status = "stopped",
          !.servers[i].process = 0]

\* The callback of the timer of stopServer: lines 398-402.  It reads the
\* process the server holds when it runs.
forceKill(reg, timer) ==
  LET held == reg.servers[timer.server].process
      cleared == [reg EXCEPT !.timers = @ \ {timer},
                             !.children[timer.child].graceOver = TRUE]
  IN IF held # 0 /\ ~reg.children[held].killed
       THEN [cleared EXCEPT !.children = kill(@, held, "SIGKILL")]
       ELSE cleared

\* stopAll(): lines 407-411
RECURSIVE stopFrom(_, _, _)
stopFrom(reg, i, ms) ==
  IF i > Len(reg.servers) THEN reg
  ELSE stopFrom(stopServer(reg, i, ms), i + 1, ms)

stopAll(reg, ms) == stopFrom(reg, 1, ms)

\* The Map of servers with the tools of each, as its entries in insertion
\* order: servers[k] is the id of the k-th entry, tools[k] its tools.
NewCatalog(configs) ==
  [servers |-> [k \in 1..Len(configs) |-> configs[k].id],
   tools |-> [k \in 1..Len(configs) |-> <<>>]]

\* The position of id among the Map's keys, 0 when it is not a key.
IndexOf(servers, id) ==
  IF \E k \in 1..Len(servers) : servers[k] = id
    THEN CHOOSE k \in 1..Len(servers) : servers[k] = id
    ELSE 0

\* registerTools(serverId, tools): lines 413-416
registerTools(cat, serverId, list) ==
  LET k == IndexOf(cat.servers, serverId) IN
  IF k = 0 THEN cat ELSE [cat EXCEPT !.tools[k] = list]

\* addServer(config): lines 445-449.  Map.set on a key the Map has keeps
\* the key's position and replaces its value.
addServer(cat, id) ==
  LET k == IndexOf(cat.servers, id) IN
  IF k = 0
    THEN [servers |-> Append(cat.servers, id), tools |-> Append(cat.tools, <<>>)]
    ELSE [cat EXCEPT !.tools[k] = <<>>]

\* removeServer(id): lines 451-454
removeServer(cat, id) ==
  LET k == IndexOf(cat.servers, id)
      rest(seq) == [j \in 1..(Len(seq) - 1) |-> IF j < k THEN seq[j] ELSE seq[j + 1]]
  IN IF k = 0 THEN cat
     ELSE [servers |-> rest(cat.servers), tools |-> rest(cat.tools)]

\* A variant of findServerForTool that returns the last server having the
\* tool
findServerForToolLast(servers, registered, toolName) ==
  LET having == {i \in 1..Len(servers) :
                   \E t \in 1..Len(registered[i]) : registered[i][t] = toolName}
  IN IF having = {} THEN 0
     ELSE CHOOSE i \in having : \A j \in having : i >= j

\* The index of the first server that has the tool, 0 when none has.
findServerForTool(servers, registered, toolName) ==
  LET having == {i \in 1..Len(servers) :
                   \E t \in 1..Len(registered[i]) : registered[i][t] = toolName}
  IN IF having = {} THEN 0
     ELSE CHOOSE i \in having : \A j \in having : i <= j

(***************************************************************************)
(* middleware.ts: RequestTracker.  The tracker is                          *)
(*   active     the Map requestId -> the instant the request started       *)
(*   draining   the flag drain() sets                                      *)
(*   timers     the timeout timers armed and not cleared: requestId -> the *)
(*              instant the timer is due                                   *)
(*   aborted    the requests whose AbortController has aborted             *)
(*   ids        the number of request ids drawn; the n-th is n             *)
(***************************************************************************)
PollMs == 100

NewTracker ==
  [active |-> EmptyMap, draining |-> FALSE, timers |-> EmptyMap,
   aborted |-> {}, ids |-> 0]

\* What the model remembers of the calls made on a tracker: the call of
\* drain (not made, waiting in its loop until wake, or returned), the
\* requests that complete() removed, that their timer removed and that
\* drain() aborted, and the last call.
NewTrackerLog ==
  [drain |-> [pc |-> "idle", begun |-> 0, maxWaitMs |-> 0, wake |-> 0],
   completed |-> {}, timedOut |-> {}, forced |-> {}, last |-> <<>>]

\* abortController.abort(): the first abort runs the listener that start
\* registered once, which clears the request's timer.
abort(t, id) ==
  [t EXCEPT !.aborted = @ \cup {id}, !.timers = Without(@, id)]

\* start(timeoutMs) at time ms: lines 24-43
start(t, timeoutMs, ms) ==
  LET id == t.ids + 1 IN
  [t EXCEPT !.ids = id,
            !.active = Put(@, id, ms),
            !.timers = Put(@, id, ms + timeoutMs)]

\* A variant of the timer's callback that aborts and leaves the entry
onRequestTimeoutKeeps(t, id) == abort(t, id)

\* The callback of the timer of request id: lines 34-37
onRequestTimeout(t, id) ==
  [abort(t, id) EXCEPT !.active = Without(@, id)]

\* complete(requestId): lines 48-54
complete(t, id) ==
  IF id \in DOMAIN t.active
    THEN [abort(t, id) EXCEPT !.active = Without(@, id)]
    ELSE t

\* drain(): line 67
beginDrain(t) == [t EXCEPT !.draining = TRUE]

\* drain(): the test of its loop at time ms, for a call made at time begun
\* with maxWaitMs: line 70
drainWaits(t, begun, maxWaitMs, ms) ==
  t.active # EmptyMap /\ ms - begun < maxWaitMs

\* drain(): lines 74-78
RECURSIVE abortAll(_, _)
abortAll(t, ids) ==
  IF ids = {} THEN t
  ELSE LET id == CHOOSE i \in ids : TRUE
       IN abortAll(abort(t, id), ids \ {id})

endDrain(t) == [abortAll(t, DOMAIN t.active) EXCEPT !.active = EmptyMap]

\* get activeCount: lines 59-61
activeCount(t) == Cardinality(DOMAIN t.active)

\* get isDraining: lines 81-83
isDraining(t) == t.draining

(***************************************************************************)
(* gateway.ts: Gateway.  The configuration of the model: two backends,     *)
(* "fred" before "pay", the policies of the engine's test, one call per    *)
(* minute and key with a burst multiplier of 1, metering on, hash chain on.*)
(***************************************************************************)
MaxCalls == 2

GatewayConfig ==
  [servers |-> <<[id |-> Fred, enabled |-> TRUE], [id |-> Pay, enabled |-> TRUE]>>,
   policies |-> TestPolicies,
   rateLimit |-> [defaultPerMinute |-> 1, burstMultiplier |-> [num |-> 1, den |-> 1]],
   metering |-> [enabled |-> TRUE],
   audit |-> [hashChain |-> TRUE]]

\* What each backend answers to tools/list.
BackendTools == <<<<GetX>>, <<GetX, DeleteX>>>>

\* constructor: new RateLimiter(defaultPerMinute || 60, burstMultiplier || 2)
RateLimiterOf(config) ==
  [defaultPerMinute |->
     IF config.rateLimit.defaultPerMinute # 0
       THEN config.rateLimit.defaultPerMinute ELSE 60,
   burstMultiplier |->
     IF config.rateLimit.burstMultiplier.num # 0
       THEN config.rateLimit.burstMultiplier ELSE [num |-> 2, den |-> 1]]

\* JSON.stringify of an argument map (its keys in insertion order) and of a
\* value received from a backend, which is held as its JSON text.
ArgKeys == <<"env", "n">>

JsonValue(v) ==
  IF v.type = "number" THEN Decimal(v.num) ELSE <<"\"", v.str, "\"">>

RECURSIVE JsonMembers(_, _, _)
JsonMembers(map, keys, first) ==
  IF keys = <<>> THEN <<>>
  ELSE IF Head(keys) \in DOMAIN map
    THEN (IF first THEN <<>> ELSE <<",">>)
           \o <<"\"", Head(keys), "\"", ":">> \o JsonValue(map[Head(keys)])
           \o JsonMembers(map, Tail(keys), FALSE)
  ELSE JsonMembers(map, Tail(keys), first)

JSONStringify(args) ==
  IF ~args.present THEN Undefined
  ELSE <<"{">> \o JsonMembers(args.map, ArgKeys, TRUE) \o <<"}">>

StringifyValue(value) == value

SliceTypeError == <<"Cannot read properties of undefined (reading 'slice')">>

NotOpenMessage == <<"The database connection is not open">>

\* callTool: the branch taken after the registry lookup, the policy
\* decision, the limiter's answer and the lookup of the proxy.
BeginPathUnlimited(found, allowed, admitted, hasProxy) ==
  IF ~found THEN "notFound"
  ELSE IF ~allowed THEN "denied"
  ELSE IF ~hasProxy THEN "notRunning"
  ELSE "forward"

BeginPath(found, allowed, admitted, hasProxy) ==
  IF ~found THEN "notFound"
  ELSE IF ~allowed THEN "denied"
  ELSE IF ~admitted THEN "rateLimited"
  ELSE IF ~hasProxy THEN "notRunning"
  ELSE "forward"

\* callTool: rateLimiter.check runs only past the policy check.
RateCheckedWhenFound(found, allowed) == found

RateChecked(found, allowed) == found /\ allowed

Event(kind, row, isError) == [kind |-> kind, row |-> row, isError |-> isError]

IdleCall ==
  [pc |-> "idle", ctx |-> NoRoleCtx, toolName |-> <<>>, args |-> NoArgs,
   startTime |-> 0, serverId |-> <<>>, requestId |-> 0, decision |-> <<>>,
   rateResult |-> <<>>, outcome |-> <<>>, latencyMs |-> 0, isError |-> FALSE,
   result |-> "none", events |-> <<>>, backendDown |-> FALSE]

\* No continuation of a callTool is queued as a microtask: the event loop
\* takes its next task (a request, a backend message, a timer, a signal).
NoMicrotask == \A c \in DOMAIN calls : calls[c].pc \notin {"settled", "audited"}

\* start(): registry.startServer for every enabled server in turn, each
\* spawned and past its await.
RECURSIVE startAll(_, _, _)
startAll(reg, i, ms) ==
  IF i > Len(reg.servers) THEN reg
  ELSE IF ~reg.servers[i].enabled THEN startAll(reg, i + 1, ms)
  ELSE LET begun == startServer(reg, i, TRUE, ms)
           timer == Timer("resume", i, Len(begun.children), ms + StartWaitMs)
       IN startAll(resumeStart(begun, timer), i + 1, ms)

\* start(), as one step, when every backend completes its handshake: every
\* enabled server is spawned and gets a proxy, which has sent initialize
\* and tools/list, and the tools it listed are registered.
GatewayStart ==
  /\ ~started /\ ~stopped
  /\ NoMicrotask
  /\ proxies' =
       [id \in {GatewayConfig.servers[i].id :
                  i \in {j \in 1..Len(GatewayConfig.servers) :
                           GatewayConfig.servers[j].enabled}} |->
          [requestId |-> 2, pending |-> EmptyMap]]
  /\ tools' = [i \in 1..Len(GatewayConfig.servers) |->
                 IF GatewayConfig.servers[i].enabled
                   THEN BackendTools[i] ELSE tools[i]]
  /\ registry' = startAll(registry, 1, now)
  /\ started' = TRUE
  /\ UNCHANGED <<stopped, windows, meter, calls, policyVars, now, auditVars>>

\* callTool(ctx, toolName, args) up to its first return or to the request
\* it sends: lines 90-138.
CallBegin(c, ctx, toolName, args) ==
  LET si == findServerForTool(GatewayConfig.servers, tools, toolName)
      found == si # 0
      serverId == IF found THEN GatewayConfig.servers[si].id ELSE <<"unknown">>
      decision == evaluate(pPolicies, ctx, serverId, toolName, args)
      allowed == found /\ decision.allowed
      rateKey == ctx.consumerId \o <<":">> \o serverId
      checked == check(RateLimiterOf(GatewayConfig), windows, rateKey,
                       ctx.rateLimit, now)
      admitted == allowed /\ checked.allowed
      hasProxy == serverId \in DOMAIN proxies
      path == BeginPath(found, allowed, admitted, hasProxy)
      rated == RateChecked(found, allowed)
      partial ==
        Partial(ctx.consumerId, ctx.apiKeyId, serverId, toolName,
                JSONStringify(args), <<>>, 0,
                IF path = "notFound" THEN <<"error">>
                ELSE IF path = "denied" THEN <<"denied">>
                ELSE <<"rate-limited">>,
                IF path = "notFound" THEN <<"Tool not found">>
                ELSE IF path = "denied" THEN decision.reason
                ELSE Undefined)
      logs == path \in {"notFound", "denied", "rateLimited"}
      st == IF logs THEN log(AuditState, partial) ELSE AuditState
  IN /\ calls[c].pc = "idle"
     /\ \A d \in 1..(c - 1) : calls[d].pc # "idle"
     /\ NoMicrotask
     /\ windows' = IF rated THEN checked.windows ELSE windows
     /\ proxies' = IF path = "forward"
                     THEN Put(proxies, serverId, request(proxies[serverId], c, now))
                     ELSE proxies
     /\ AuditBecomes(st)
     /\ calls' =
          [calls EXCEPT ![c] =
             [pc |-> IF path = "forward" THEN "awaiting" ELSE "done",
              ctx |-> ctx, toolName |-> toolName, args |-> args,
              startTime |-> now, serverId |-> serverId,
              requestId |-> IF path = "forward"
                              THEN proxies[serverId].requestId + 1 ELSE 0,
              decision |-> IF found THEN <<decision>> ELSE <<>>,
              rateResult |-> IF rated
                               THEN <<[allowed |-> checked.allowed,
                                       remaining |-> checked.remaining,
                                       resetAt |-> checked.resetAt]>>
                               ELSE <<>>,
              outcome |-> <<>>, latencyMs |-> 0, isError |-> FALSE,
              result |-> IF st.threw THEN "threw"
                         ELSE IF path = "forward" THEN "none" ELSE path,
              events |-> IF path = "forward" THEN <<Event("forward", 0, FALSE)>>
                         ELSE IF logs /\ ~st.threw
                           THEN <<Event("audit", Len(st.rows), FALSE)>>
                         ELSE <<>>,
              backendDown |-> found /\ registry.servers[si].process = 0]]
     /\ UNCHANGED <<started, stopped, tools, meter, policyVars, now>>

\* The call awaiting request id of a proxy is settled: its continuation is
\* queued.
Settle(c, settlement) ==
  [calls EXCEPT ![c].pc = "settled", ![c].outcome = <<settlement>>]

\* A line from backend s carrying id with a result or an error:
\* processBuffer and handleMessage.  A message whose id is not pending
\* changes nothing.
ProxyReply(s, id, kind) ==
  /\ NoMicrotask
  /\ s \in DOMAIN proxies
  /\ id \in 1..proxies[s].requestId
  /\ IF id \in DOMAIN proxies[s].pending
       THEN /\ proxies' = [proxies EXCEPT ![s].pending = Without(@, id)]
            /\ calls' = Settle(proxies[s].pending[id].call, Settlement(kind))
       ELSE UNCHANGED <<proxies, calls>>
  /\ UNCHANGED <<started, stopped, tools, windows, meter, policyVars, now,
                 auditVars>>

\* The timer of request id fires: request, lines 63-66.
ProxyTimeout(s, id) ==
  /\ NoMicrotask
  /\ s \in DOMAIN proxies
  /\ id \in DOMAIN proxies[s].pending
  /\ now >= proxies[s].pending[id].deadline
  /\ proxies' = [proxies EXCEPT ![s].pending = Without(@, id)]
  /\ calls' = Settle(proxies[s].pending[id].call,
                     Rejection(TimeoutMessage(ToolsCall)))
  /\ UNCHANGED <<started, stopped, tools, windows, meter, policyVars, now,
                 auditVars>>

\* callTool resumes after await proxy.callTool: lines 139-148 when the
\* promise resolved, lines 155-162 when it rejected or when a statement of
\* the try block threw.  audit.log on a closed connection throws; thrown in
\* the try block it is caught and the catch block logs again.
CallAudit(c) ==
  LET call == calls[c]
      outcome == call.outcome[1]
      latencyMs == now - call.startTime
      json == StringifyValue(outcome.value)
      success ==
        Partial(call.ctx.consumerId, call.ctx.apiKeyId, call.serverId,
                call.toolName, JSONStringify(call.args),
                Slice(json, ResponseLimit), latencyMs, <<"success">>, Undefined)
      failure(message) ==
        Partial(call.ctx.consumerId, call.ctx.apiKeyId, call.serverId,
                call.toolName, JSONStringify(call.args), <<>>, latencyMs,
                <<"error">>, message)
      tried == outcome.state = "resolved" /\ json # Undefined
      st1 == IF tried THEN log(AuditState, success) ELSE AuditState
      caught == ~tried \/ st1.threw
      message == IF outcome.state = "rejected" THEN outcome.message
                 ELSE IF json = Undefined THEN SliceTypeError
                 ELSE NotOpenMessage
      st2 == IF caught THEN log(st1, failure(message)) ELSE st1
  IN /\ call.pc = "settled"
     /\ AuditBecomes(st2)
     /\ calls' =
          [calls EXCEPT
             ![c].pc = IF st2.threw THEN "done" ELSE "audited",
             ![c].latencyMs = latencyMs,
             ![c].isError = caught,
             ![c].result = IF st2.threw THEN "threw" ELSE "none",
             ![c].events = IF st2.threw THEN @
                           ELSE Append(@, Event("audit", Len(st2.rows), FALSE))]
     /\ UNCHANGED <<started, stopped, tools, proxies, windows, meter,
                    policyVars, now>>

\* callTool resumes after await audit.log: meter.record and the return,
\* lines 151-153 and 164-166.
CallMeter(c) ==
  LET call == calls[c] IN
  /\ call.pc = "audited"
  /\ meter' = record(GatewayConfig.metering.enabled, meter,
                     call.ctx.consumerId, call.serverId, call.toolName,
                     call.latencyMs, call.isError, now)
  /\ calls' =
       [calls EXCEPT
          ![c].pc = "done",
          ![c].result = IF call.isError THEN "error" ELSE "result",
          ![c].events = Append(@, Event("meter", 0, call.isError))]
  /\ UNCHANGED <<started, stopped, tools, proxies, windows, policyVars, now,
                 auditVars>>

\* stop(): every proxy is destroyed (its pending requests are rejected with
\* "Proxy destroyed"), the proxies are dropped, every server is stopped,
\* the meter is flushed and the audit connection is closed, all in the
\* same task.
GatewayStop ==
  /\ ~stopped
  /\ NoMicrotask
  /\ calls' =
       [c \in DOMAIN calls |->
          IF calls[c].pc = "awaiting"
            THEN [calls[c] EXCEPT !.pc = "settled",
                                  !.outcome = <<Rejection(DestroyedMessage)>>]
            ELSE calls[c]]
  /\ proxies' = EmptyMap
  /\ registry' = stopAll(registry, now)
  /\ meter' = flush(meter)
  /\ dbOpen' = FALSE
  /\ stopped' = TRUE
  /\ UNCHANGED <<started, tools, windows, policyVars, now, auditRows,
                 lastHash, hashChain, uuids, writers, instances, tampered,
                 verified>>

\* Time passes between two tasks of the event loop.
GatewayTick ==
  /\ NoMicrotask
  /\ Tick
  /\ UNCHANGED <<policyVars, auditVars, gatewayVars>>

\* The codes a child can exit with: null only when a signal ended it, and
\* nothing else once SIGKILL was delivered.
CanExitWith(child, code) ==
  /\ child.alive
  /\ code = NullCode => child.signal # "none"
  /\ child.signal = "SIGKILL" => code = NullCode

\* A backend's process exits; the registry's "exit" observer runs.
BackendExit(c, code) ==
  /\ NoMicrotask
  /\ c \in 1..Len(registry.children)
  /\ CanExitWith(registry.children[c], code)
  /\ registry' = onExit(registry, c, code)
  /\ UNCHANGED <<policyVars, now, auditVars, gatewayVars>>

\* A timer of the registry is due and runs.
RegistryTimer(timer) ==
  /\ NoMicrotask
  /\ timer \in registry.timers
  /\ now >= timer.due
  /\ registry' = IF timer.kind = "kill" THEN forceKill(registry, timer)
                 ELSE resumeStart(registry, timer)
  /\ UNCHANGED <<policyVars, now, auditVars, gatewayVars>>

(***************************************************************************)
(* Initial states of the components.                                       *)
(***************************************************************************)
\* new AuditLog(config) on a file that does not exist yet
AuditConstructed(chain) ==
  /\ auditRows = <<>>
  /\ dbOpen = TRUE
  /\ lastHash = Genesis
  /\ hashChain = chain
  /\ uuids = 0
  /\ writers = <<>>
  /\ instances = 1
  /\ tampered = <<>>
  /\ verified = <<>>

\* A PolicyEngine that is not under evaluation.
PolicyIdle ==
  /\ pPolicies = DefaultPolicies
  /\ pCtx = NoRoleCtx
  /\ pServer = Fred
  /\ pTool = GetX
  /\ pArgs = NoArgs
  /\ pDecision = <<>>

\* new Gateway(config), before start(): no proxy, no tool registered; n
\* invocations of callTool are to come.
NewGatewayOf(n, servers) ==
  /\ started = FALSE
  /\ stopped = FALSE
  /\ tools = [i \in 1..Len(GatewayConfig.servers) |-> <<>>]
  /\ proxies = EmptyMap
  /\ windows = EmptyMap
  /\ meter = [buckets |-> <<>>, history |-> <<>>, currentPeriod |-> getPeriod(0)]
  /\ calls = [c \in 1..n |-> IdleCall]
  /\ registry = NewRegistry(servers)

NewGateway(n) == NewGatewayOf(n, GatewayConfig.servers)

GatewayConstructed == NewGateway(MaxCalls)

\* A RateLimiter that is not under test: the gateway's own.
LimiterIdle ==
  /\ limiter = RateLimiterOf(GatewayConfig)
  /\ limits = EmptyMap
  /\ lastCheck = <<>>
  /\ opened = EmptyMap
  /\ alone = EmptyMap
  /\ uncleaned = EmptyMap

\* A McpProxy that is not under test.
ProxyIdle ==
  /\ mcp = NewProxy(TimeoutMs)
  /\ mcpLast = <<>>
  /\ doomed = {}

\* No Meter is under test.
MeterIdle ==
  /\ recorded = <<>>
  /\ summary = <<>>

\* No Authenticator is under test.
AuthIdle ==
  /\ authenticator = NewAuthenticator([type |-> "none", keys |-> <<>>])
  /\ credentials = Undefined
  /\ authenticated = <<>>

\* No tool registrations under test.
ToolsIdle ==
  /\ catalog = NewCatalog(GatewayConfig.servers)
  /\ toolOp = <<>>

\* No RequestTracker is under test.
TrackerIdle ==
  /\ tracker = NewTracker
  /\ trackerLog = NewTrackerLog

UnitsIdle ==
  LimiterIdle /\ ProxyIdle /\ MeterIdle /\ AuthIdle /\ ToolsIdle /\ TrackerIdle

(***************************************************************************)
(* SpecAudit: one audit file, written by a succession of AuditLog          *)
(* instances (close, then construct again), verified at any time, and      *)
(* modified at most once behind the log's back.                            *)
(***************************************************************************)
AuditInit ==
  /\ PolicyIdle
  /\ now = 0
  /\ \E chain \in BOOLEAN : AuditConstructed(chain)
  /\ GatewayConstructed
  /\ UnitsIdle

AuditNext ==
  \/ (\E partial \in AuditPartials : AuditLogCall(partial)) /\ UNCHANGED <<policyVars, now, gatewayVars, unitVars, registryVars>>
  \/ AuditClose /\ UNCHANGED <<policyVars, now, gatewayVars, unitVars, registryVars>>
  \/ AuditOpen /\ UNCHANGED <<policyVars, now, gatewayVars, unitVars, registryVars>>
  \/ AuditVerify /\ UNCHANGED <<policyVars, now, gatewayVars, unitVars, registryVars>>
  \/ (\E k \in 1..MaxRows, column \in Columns : Tamper(k, column)) /\ UNCHANGED <<policyVars, now, gatewayVars, unitVars, registryVars>>

SpecAudit == AuditInit /\ [][AuditNext]_vars

(***************************************************************************)
(* SpecAuditLong: the same log, given responses around the limit of the    *)
(* response column: none, a short one, one of exactly ResponseLimit units  *)
(* and one of a unit more.                                                 *)
(***************************************************************************)
MaxLongRows == 2

\* A response of n units, the k-th of which is the last digit of k
LongResponse(n) == [k \in 1..n |-> Digits[(k % 10) + 1]]

LongPartials ==
  {Partial(<<"u", "1">>, <<"k", "1">>, Fred, GetX, EmptyObject, response,
           10, <<"success">>, Undefined) :
     response \in {Undefined, EmptyObject, LongResponse(ResponseLimit),
                   LongResponse(ResponseLimit + 1)}}

AuditLongLogCall(partial) ==
  /\ uuids < MaxLongRows
  /\ LogEffect(partial)

AuditLongNext ==
  \/ (\E partial \in LongPartials : AuditLongLogCall(partial))
       /\ UNCHANGED <<policyVars, now, gatewayVars, unitVars, registryVars>>
  \/ AuditClose
       /\ UNCHANGED <<policyVars, now, gatewayVars, unitVars, registryVars>>
  \/ AuditOpen
       /\ UNCHANGED <<policyVars, now, gatewayVars, unitVars, registryVars>>

SpecAuditLong == AuditInit /\ [][AuditLongNext]_vars

(***************************************************************************)
(* SpecPolicy: one PolicyEngine, constructed with any policy set of the    *)
(* model, answering one evaluate call with any caller, server, tool and    *)
(* argument map of the model.                                              *)
(***************************************************************************)
PolicyInit ==
  /\ pPolicies \in PolicySets
  /\ pCtx \in {ReaderCtx, AdminCtx, NoRoleCtx}
  /\ pServer \in {Pay, Fred}
  /\ pTool \in {GetX, DeleteX}
  /\ pArgs \in {NoArgs, EmptyArgs, ProdArgs, DevArgs}
  /\ pDecision = <<>>
  /\ now = 0
  /\ AuditConstructed(TRUE)
  /\ GatewayConstructed
  /\ UnitsIdle

PolicyEvaluate ==
  /\ pDecision = <<>>
  /\ pDecision' = <<evaluate(pPolicies, pCtx, pServer, pTool, pArgs)>>
  /\ UNCHANGED <<pPolicies, pCtx, pServer, pTool, pArgs, now, auditVars,
                 gatewayVars, unitVars, registryVars>>

PolicyNext == PolicyEvaluate

SpecPolicy == PolicyInit /\ [][PolicyNext]_vars

(***************************************************************************)
(* Spec: one Gateway from its construction on.  Callers invoke callTool    *)
(* at any time (before start, while running, after stop), backends answer, *)
(* stay silent or answer late, time passes, and stop() is called once.     *)
(* Tasks of the event loop are taken only when no continuation of a call   *)
(* is queued.                                                              *)
(***************************************************************************)
Request(ctx, toolName, args) ==
  [ctx |-> ctx, toolName |-> toolName, args |-> args]

\* The calls made: a reader reading (allowed, on "fred"), a reader deleting
\* (denied, on "pay"), an administrator deleting (allowed, on "pay"), and a
\* tools/call request whose params name no tool.  Each of the first three
\* names a tool no server has as long as start() has not registered the
\* backends' tools.
Requests ==
  { Request(ReaderCtx, GetX, EmptyArgs), Request(ReaderCtx, DeleteX, DevArgs),
    Request(AdminCtx, DeleteX, EmptyArgs),
    Request(ReaderCtx, Undefined, EmptyArgs) }

Init ==
  /\ pPolicies = GatewayConfig.policies
  /\ pCtx = NoRoleCtx
  /\ pServer = Fred
  /\ pTool = GetX
  /\ pArgs = NoArgs
  /\ pDecision = <<>>
  /\ now = 0
  /\ AuditConstructed(GatewayConfig.audit.hashChain)
  /\ GatewayConstructed
  /\ UnitsIdle

Next ==
  \/ GatewayStart /\ UNCHANGED unitVars
  \/ (\E c \in 1..Len(registry.children), code \in ExitCodes :
        BackendExit(c, code)) /\ UNCHANGED unitVars
  \/ (\E timer \in registry.timers : RegistryTimer(timer))
       /\ UNCHANGED unitVars
  \/ (\E c \in 1..MaxCalls, r \in Requests :
        CallBegin(c, r.ctx, r.toolName, r.args)) /\ UNCHANGED <<unitVars, registryVars>>
  \/ (\E s \in DOMAIN proxies :
        \E id \in (DOMAIN proxies[s].pending) \cup {1}, kind \in ReplyKinds :
          ProxyReply(s, id, kind)) /\ UNCHANGED <<unitVars, registryVars>>
  \/ (\E s \in DOMAIN proxies :
        \E id \in DOMAIN proxies[s].pending : ProxyTimeout(s, id))
       /\ UNCHANGED <<unitVars, registryVars>>
  \/ (\E c \in 1..MaxCalls : CallAudit(c)) /\ UNCHANGED <<unitVars, registryVars>>
  \/ (\E c \in 1..MaxCalls : CallMeter(c)) /\ UNCHANGED <<unitVars, registryVars>>
  \/ GatewayStop /\ UNCHANGED unitVars
  \/ GatewayTick /\ UNCHANGED <<unitVars, registryVars>>

Spec == Init /\ [][Next]_vars

(***************************************************************************)
(* SpecWrites: the audit writes of three invocations of callTool that run  *)
(* concurrently on one gateway while the clock stands still: each may      *)
(* begin while others await their backend, and the backends answer in any  *)
(* order.                                                                  *)
(***************************************************************************)
MaxWriters == 3

WritesInit ==
  /\ pPolicies = GatewayConfig.policies
  /\ pCtx = NoRoleCtx
  /\ pServer = Fred
  /\ pTool = GetX
  /\ pArgs = NoArgs
  /\ pDecision = <<>>
  /\ now = 0
  /\ AuditConstructed(GatewayConfig.audit.hashChain)
  /\ NewGateway(MaxWriters)
  /\ UnitsIdle

WritesNext ==
  \/ GatewayStart /\ UNCHANGED unitVars
  \/ (\E c \in 1..MaxWriters, r \in Requests :
        CallBegin(c, r.ctx, r.toolName, r.args)) /\ UNCHANGED <<unitVars, registryVars>>
  \/ (\E s \in DOMAIN proxies :
        \E id \in DOMAIN proxies[s].pending, kind \in ReplyKinds :
          ProxyReply(s, id, kind)) /\ UNCHANGED <<unitVars, registryVars>>
  \/ (\E c \in 1..MaxWriters : CallAudit(c)) /\ UNCHANGED <<unitVars, registryVars>>
  \/ (\E c \in 1..MaxWriters : CallMeter(c)) /\ UNCHANGED <<unitVars, registryVars>>
  \/ GatewayStop /\ UNCHANGED unitVars

SpecWrites == WritesInit /\ [][WritesNext]_vars

(***************************************************************************)
(* SpecLimiter: one RateLimiter on its own, as its tests construct it,     *)
(* checked with two keys while time passes; cleanup() runs at any time.    *)
(* Beside it, for each key, runs a limiter that receives only the calls    *)
(* made for that key.                                                      *)
(***************************************************************************)
MaxChecks == 4

MaxWindows == 2

KeyA == <<"a">>

KeyB == <<"b">>

Keys == {KeyA, KeyB}

Fraction(num, den) == [num |-> num, den |-> den]

\* new RateLimiter(defaultPerMinute, burstMultiplier)
Limiters ==
  { [defaultPerMinute |-> 1, burstMultiplier |-> Fraction(1, 1)],
    [defaultPerMinute |-> 2, burstMultiplier |-> Fraction(1, 1)],
    [defaultPerMinute |-> 1, burstMultiplier |-> Fraction(2, 1)],
    [defaultPerMinute |-> 3, burstMultiplier |-> Fraction(1, 2)],
    [defaultPerMinute |-> 1, burstMultiplier |-> Fraction(0, 1)] }

\* check(key) and check(key, 3)
LimitOverrides == {0, 3}

\* A variant of cleanup that collects the windows still running
cleanupRunning(wins, ms) ==
  [k \in {j \in DOMAIN wins : ~(ms < wins[j].resetAt)} |-> wins[k]]

\* cleanup() at time ms
cleanup(wins, ms) ==
  [k \in {j \in DOMAIN wins : ~(ms >= wins[j].resetAt)} |-> wins[k]]

\* The window of a key in a Map of windows: <<>> when it has none.
WindowOf(wins, key) == IF key \in DOMAIN wins THEN <<wins[key]>> ELSE <<>>

LimiterInit ==
  /\ PolicyIdle
  /\ now = 0
  /\ AuditConstructed(TRUE)
  /\ GatewayConstructed
  /\ limiter \in Limiters
  /\ limits \in [Keys -> LimitOverrides]
  /\ lastCheck = <<>>
  /\ opened = EmptyMap
  /\ alone = [k \in Keys |-> EmptyMap]
  /\ uncleaned = EmptyMap
  /\ ProxyIdle
  /\ MeterIdle
  /\ AuthIdle
  /\ ToolsIdle
  /\ TrackerIdle

\* rateLimiter.check(key, limits[key])
LimiterCheck(key) ==
  LET result == check(limiter, windows, key, limits[key], now)
      solo == check(limiter, alone[key], key, limits[key], now)
      plain == check(limiter, uncleaned, key, limits[key], now)
      begins == IF key \in DOMAIN opened
                  THEN now >= opened[key].at + WindowMs ELSE TRUE
      strip(r) == [allowed |-> r.allowed, remaining |-> r.remaining,
                   resetAt |-> r.resetAt]
  IN /\ IF begins THEN TRUE ELSE opened[key].checks < MaxChecks
     /\ windows' = result.windows
     /\ alone' = [alone EXCEPT ![key] = solo.windows]
     /\ uncleaned' = plain.windows
     /\ opened' = Put(opened, key,
                      IF begins THEN [at |-> now, checks |-> 1]
                      ELSE [opened[key] EXCEPT !.checks = @ + 1])
     /\ lastCheck' = <<[key |-> key, at |-> now,
                        before |-> WindowOf(windows, key),
                        after |-> WindowOf(result.windows, key),
                        result |-> strip(result), solo |-> strip(solo),
                        plain |-> strip(plain),
                        kept |-> WindowOf(uncleaned, key)]>>
     /\ UNCHANGED <<limiter, limits, now, proxyVars, meterVars, authVars, toolVars, trackerVars>>

\* rateLimiter.cleanup(), on the limiter and on the ones beside it, but
\* for the one that is never cleaned
LimiterCleanup ==
  /\ windows' = cleanup(windows, now)
  /\ alone' = [k \in Keys |-> cleanup(alone[k], now)]
  /\ UNCHANGED <<limiter, limits, lastCheck, opened, uncleaned, now, proxyVars, meterVars, authVars, toolVars, trackerVars>>

LimiterTick ==
  /\ now + TickMs <= MaxWindows * WindowMs
  /\ now' = now + TickMs
  /\ UNCHANGED <<windows, limiterVars, proxyVars, meterVars, authVars, toolVars, trackerVars>>

LimiterNext ==
  \/ (\E key \in Keys : LimiterCheck(key))
       /\ UNCHANGED <<policyVars, auditVars, started, stopped, tools, proxies, meter, calls, registryVars>>
  \/ LimiterCleanup
       /\ UNCHANGED <<policyVars, auditVars, started, stopped, tools, proxies, meter, calls, registryVars>>
  \/ LimiterTick
       /\ UNCHANGED <<policyVars, auditVars, started, stopped, tools, proxies, meter, calls, registryVars>>

SpecLimiter == LimiterInit /\ [][LimiterNext]_vars

(***************************************************************************)
(* SpecProxy: one McpProxy on its own.  Requests are made, the backend     *)
(* answers any id at any time (or never), timers fire when they are due    *)
(* and before the clock advances further, and destroy() runs at any time.  *)
(* SpecProxyLive adds that a due timer does fire and that time does pass.  *)
(***************************************************************************)
MaxRequests == 2

MaxProxyTicks == 3

MessageKinds == ReplyKinds \cup {"empty"}

ProxyEvent(kind, id, found) == [kind |-> kind, id |-> id, found |-> found]

ProxyUnitInit ==
  /\ PolicyIdle
  /\ now = 0
  /\ AuditConstructed(TRUE)
  /\ GatewayConstructed
  /\ LimiterIdle
  /\ MeterIdle
  /\ AuthIdle
  /\ ToolsIdle
  /\ TrackerIdle
  /\ mcp \in {NewProxy(TimeoutMs), NewProxy(2 * TimeoutMs)}
  /\ mcpLast = <<>>
  /\ doomed = {}

\* proxy.callTool(name, args); the request is made only while its deadline
\* lies within the time the model covers.
McpRequest ==
  /\ mcp.requestId < MaxRequests
  /\ now + mcp.timeoutMs <= MaxProxyTicks * TickMs
  /\ mcp' = sendRequest(mcp, now)
  /\ mcpLast' = <<ProxyEvent("request", mcp.requestId + 1, TRUE)>>
  /\ UNCHANGED <<doomed, now>>

ObjectLine(id, reply) == [kind |-> "object", id |-> id, reply |-> reply]

\* The lines of a backend that carry no id: a blank line, a line of log
\* text, null, a notification and an object with a result but no id.
Lines ==
  { [kind |-> "blank", id |-> 0, reply |-> "empty"],
    [kind |-> "text", id |-> 0, reply |-> "empty"],
    [kind |-> "null", id |-> 0, reply |-> "empty"],
    ObjectLine(0, "empty"), ObjectLine(0, "result") }

\* A line of the backend's output that carries id.
McpMessage(id, kind) ==
  /\ mcp' = processBuffer(mcp, ObjectLine(id, kind))
  /\ mcpLast' = <<ProxyEvent(kind, id, id \in DOMAIN mcp.pending)>>
  /\ UNCHANGED <<doomed, now>>

\* The timer of a request is due and runs.
McpTimerFire(id) ==
  /\ id \in DOMAIN mcp.timers
  /\ now >= mcp.timers[id]
  /\ mcp' = onTimeout(mcp, id)
  /\ mcpLast' = <<ProxyEvent("timeout", id, id \in DOMAIN mcp.pending)>>
  /\ UNCHANGED <<doomed, now>>

LineName(line) ==
  IF line.kind # "object" THEN line.kind
  ELSE IF line.reply = "empty" THEN "notification" ELSE "resultNoId"

\* A line of the backend's output that carries no id.
McpLine(line) ==
  /\ mcp' = processBuffer(mcp, line)
  /\ mcpLast' = <<ProxyEvent(LineName(line), 0, FALSE)>>
  /\ UNCHANGED <<doomed, now>>

McpDestroy ==
  /\ mcp' = destroy(mcp)
  /\ mcpLast' = <<ProxyEvent("destroy", 0, mcp.pending # EmptyMap)>>
  /\ doomed' = doomed \cup DOMAIN mcp.pending
  /\ UNCHANGED now

McpTick ==
  /\ now + TickMs <= MaxProxyTicks * TickMs
  /\ \A t \in DOMAIN mcp.timers : now < mcp.timers[t]
  /\ now' = now + TickMs
  /\ UNCHANGED proxyVars

ProxyUnitNext ==
  \/ McpRequest
       /\ UNCHANGED <<policyVars, auditVars, gatewayVars, limiterVars, meterVars, authVars, toolVars, trackerVars, registryVars>>
  \/ (\E id \in 1..MaxRequests, kind \in MessageKinds : McpMessage(id, kind))
       /\ UNCHANGED <<policyVars, auditVars, gatewayVars, limiterVars, meterVars, authVars, toolVars, trackerVars, registryVars>>
  \/ (\E line \in Lines : McpLine(line))
       /\ UNCHANGED <<policyVars, auditVars, gatewayVars, limiterVars, meterVars, authVars, toolVars, trackerVars, registryVars>>
  \/ (\E id \in 1..MaxRequests : McpTimerFire(id))
       /\ UNCHANGED <<policyVars, auditVars, gatewayVars, limiterVars, meterVars, authVars, toolVars, trackerVars, registryVars>>
  \/ McpDestroy
       /\ UNCHANGED <<policyVars, auditVars, gatewayVars, limiterVars, meterVars, authVars, toolVars, trackerVars, registryVars>>
  \/ McpTick
       /\ UNCHANGED <<policyVars, auditVars, gatewayVars, limiterVars, meterVars, authVars, toolVars, trackerVars, registryVars>>

SpecProxy == ProxyUnitInit /\ [][ProxyUnitNext]_vars

SpecProxyLive ==
  /\ ProxyUnitInit
  /\ [][ProxyUnitNext]_vars
  /\ WF_vars((\E id \in 1..MaxRequests : McpTimerFire(id))
               /\ UNCHANGED <<policyVars, auditVars, gatewayVars, limiterVars, meterVars, authVars, toolVars, trackerVars, registryVars>>)
  /\ WF_vars(McpTick
               /\ UNCHANGED <<policyVars, auditVars, gatewayVars, limiterVars, meterVars, authVars, toolVars, trackerVars, registryVars>>)

(***************************************************************************)
(* SpecMeter: one Meter on its own, with metering enabled.  Calls are      *)
(* recorded for three consumers, two servers and two tools; flush() runs   *)
(* at any time (the interval timer of the constructor, or a caller);       *)
(* getSummary is asked for any of the consumers; the clock advances by     *)
(* an hour, so that records fall into different periods.  One of the       *)
(* consumers is an OIDC subject of the form "a|b" (auth.ts takes the       *)
(* consumerId from the token's sub, which Auth0 writes "auth0|...").       *)
(***************************************************************************)
MaxRecords == 3

MaxMeterTicks == 1

ConsumerA == <<"a">>

ConsumerB == <<"b">>

SubjectAB == <<"a", "|", "b">>

Consumers == {ConsumerA, ConsumerB, SubjectAB}

MeterServers == {<<"s", "1">>, <<"b">>}

MeterTools == {<<"t", "1">>, <<"t", "2">>}

Latencies == {10}

MeterInit ==
  /\ PolicyIdle
  /\ now = 0
  /\ AuditConstructed(TRUE)
  /\ GatewayConstructed
  /\ LimiterIdle
  /\ ProxyIdle
  /\ AuthIdle
  /\ ToolsIdle
  /\ TrackerIdle
  /\ recorded = <<>>
  /\ summary = <<>>

\* meter.record(consumerId, serverId, tool, latencyMs, isError)
MeterRecord(consumerId, serverId, tool, latencyMs, isError) ==
  /\ Len(recorded) < MaxRecords
  /\ meter' = record(TRUE, meter, consumerId, serverId, tool, latencyMs,
                     isError, now)
  /\ recorded' = Append(recorded,
                        [consumerId |-> consumerId, serverId |-> serverId,
                         tool |-> tool, latencyMs |-> latencyMs,
                         isError |-> isError])
  /\ summary' = <<>>
  /\ UNCHANGED now

\* meter.flush(), by the interval timer or by a caller
MeterFlush ==
  /\ meter' = flush(meter)
  /\ UNCHANGED <<recorded, summary, now>>

\* meter.getSummary(consumerId)
MeterSummary(consumerId) ==
  LET got == getSummary(meter, consumerId) IN
  /\ meter' = got.meter
  /\ summary' = <<[consumerId |-> consumerId, result |-> got.result]>>
  /\ UNCHANGED <<recorded, now>>

MeterTick ==
  /\ now + HourMs <= MaxMeterTicks * HourMs
  /\ now' = now + HourMs
  /\ UNCHANGED <<meter, recorded, summary>>

MeterNext ==
  \/ (\E consumerId \in Consumers, serverId \in MeterServers,
         tool \in MeterTools, latencyMs \in Latencies, isError \in BOOLEAN :
        MeterRecord(consumerId, serverId, tool, latencyMs, isError))
       /\ UNCHANGED <<policyVars, auditVars, started, stopped, tools, proxies,
                      windows, calls, limiterVars, proxyVars, authVars, toolVars, trackerVars,
                      registryVars>>
  \/ MeterFlush
       /\ UNCHANGED <<policyVars, auditVars, started, stopped, tools, proxies,
                      windows, calls, limiterVars, proxyVars, authVars, toolVars, trackerVars,
                      registryVars>>
  \/ (\E consumerId \in Consumers : MeterSummary(consumerId))
       /\ UNCHANGED <<policyVars, auditVars, started, stopped, tools, proxies,
                      windows, calls, limiterVars, proxyVars, authVars, toolVars, trackerVars,
                      registryVars>>
  \/ MeterTick
       /\ UNCHANGED <<policyVars, auditVars, started, stopped, tools, proxies,
                      windows, calls, limiterVars, proxyVars, authVars, toolVars, trackerVars,
                      registryVars>>

SpecMeter == MeterInit /\ [][MeterNext]_vars

(***************************************************************************)
(* SpecMeterLatency: the same Meter, with calls of two consumers to one    *)
(* tool that took 0, 10 or 11 ms, and summaries of either consumer and of  *)
(* all consumers.                                                          *)
(***************************************************************************)
LatenciesMs == {0, 10, 11}

MeterLatencyNext ==
  \/ (\E consumerId \in {ConsumerA, ConsumerB}, latencyMs \in LatenciesMs :
        MeterRecord(consumerId, <<"s", "1">>, <<"t", "1">>, latencyMs, FALSE))
       /\ UNCHANGED <<policyVars, auditVars, started, stopped, tools, proxies,
                      windows, calls, limiterVars, proxyVars, authVars,
                      toolVars, trackerVars, registryVars>>
  \/ MeterFlush
       /\ UNCHANGED <<policyVars, auditVars, started, stopped, tools, proxies,
                      windows, calls, limiterVars, proxyVars, authVars,
                      toolVars, trackerVars, registryVars>>
  \/ (\E consumerId \in {ConsumerA, ConsumerB, Undefined} :
        MeterSummary(consumerId))
       /\ UNCHANGED <<policyVars, auditVars, started, stopped, tools, proxies,
                      windows, calls, limiterVars, proxyVars, authVars,
                      toolVars, trackerVars, registryVars>>
  \/ MeterTick
       /\ UNCHANGED <<policyVars, auditVars, started, stopped, tools, proxies,
                      windows, calls, limiterVars, proxyVars, authVars,
                      toolVars, trackerVars, registryVars>>

SpecMeterLatency == MeterInit /\ [][MeterLatencyNext]_vars

(***************************************************************************)
(* SpecAuth: one Authenticator on its own.  Its configuration lists up to  *)
(* MaxKeys records out of: a key stored verbatim, the same key stored      *)
(* verbatim by a disabled record, the same key stored as its SHA-256 hex,  *)
(* a second key that expires after one tick, and the second key with an    *)
(* expiry that is not a date.  authenticate is called with no credential,  *)
(* the empty string, either key, the hex of the first key, or an unknown   *)
(* key, while time passes; reload() replaces the configuration.            *)
(***************************************************************************)
MaxKeys == 2

MaxAuthTicks == 2

ApiKey(id, key, consumerId, roles, rateLimit, expiresAt, enabled) ==
  [id |-> id, key |-> key, consumerId |-> consumerId, roles |-> roles,
   rateLimit |-> rateLimit, expiresAt |-> expiresAt, enabled |-> enabled]

KeyOne == <<"g", "w", "1">>

KeyTwo == <<"g", "w", "2">>

ApiKeys ==
  {ApiKey(<<"k", "1">>, KeyOne, <<"c", "1">>, <<"reader">>, 0, Undefined, TRUE),
   ApiKey(<<"k", "2">>, KeyOne, <<"c", "2">>, <<"admin">>, 0, Undefined, FALSE),
   ApiKey(<<"k", "3">>, hashKey(KeyOne), <<"c", "3">>, <<"admin">>, 5,
          Undefined, TRUE),
   ApiKey(<<"k", "4">>, KeyTwo, <<"c", "4">>, <<"reader">>, 0,
          toISOString(TickMs), TRUE),
   ApiKey(<<"k", "5">>, KeyTwo, <<"c", "5">>, <<"reader">>, 0, <<"soon">>, TRUE)}

AuthConfigs ==
  {[type |-> "api-key", keys |-> keys] :
     keys \in UNION {[1..n -> ApiKeys] : n \in 0..MaxKeys}}
    \cup {[type |-> type, keys |-> <<>>] : type \in {"jwt", "none"}}

Credentials ==
  {Undefined, <<>>, KeyOne, KeyTwo, hashKey(KeyOne), <<"g", "w", "9">>}

AuthInit ==
  /\ PolicyIdle
  /\ now = 0
  /\ AuditConstructed(TRUE)
  /\ GatewayConstructed
  /\ LimiterIdle
  /\ ProxyIdle
  /\ MeterIdle
  /\ ToolsIdle
  /\ TrackerIdle
  /\ \E config \in AuthConfigs : authenticator = NewAuthenticator(config)
  /\ credentials = Undefined
  /\ authenticated = <<>>

\* authenticator.authenticate(creds)
AuthAuthenticate(creds) ==
  /\ credentials' = creds
  /\ authenticated' = <<authenticate(authenticator, creds, now)>>
  /\ UNCHANGED <<authenticator, now>>

\* authenticator.reload(config)
AuthReload(config) ==
  /\ authenticator' = NewAuthenticator(config)
  /\ authenticated' = <<>>
  /\ UNCHANGED <<credentials, now>>

AuthTick ==
  /\ now + TickMs <= MaxAuthTicks * TickMs
  /\ now' = now + TickMs
  /\ authenticated' = <<>>
  /\ UNCHANGED <<authenticator, credentials>>

AuthNext ==
  \/ (\E creds \in Credentials : AuthAuthenticate(creds))
       /\ UNCHANGED <<policyVars, auditVars, gatewayVars, limiterVars,
                      proxyVars, meterVars, toolVars,
                      trackerVars, registryVars>>
  \/ (\E config \in AuthConfigs : AuthReload(config))
       /\ UNCHANGED <<policyVars, auditVars, gatewayVars, limiterVars,
                      proxyVars, meterVars, toolVars,
                      trackerVars, registryVars>>
  \/ AuthTick
       /\ UNCHANGED <<policyVars, auditVars, gatewayVars, limiterVars,
                      proxyVars, meterVars, toolVars,
                      trackerVars, registryVars>>

SpecAuth == AuthInit /\ [][AuthNext]_vars

(***************************************************************************)
(* SpecTools: the tools of a ServerRegistry.  Tools are registered for any *)
(* server, known or not, servers are added and removed, and any tool name  *)
(* is looked up.                                                           *)
(***************************************************************************)
MaxServers == 3

Zed == <<"z">>

ServerIds == {Fred, Pay, Zed}

PutX == <<"p", "u", "t", "_", "x">>

ToolLists == {<<>>, <<GetX>>, <<DeleteX>>, <<GetX, DeleteX>>}

ToolCall(op, id, name, list, result) ==
  [op |-> op, id |-> id, name |-> name, tools |-> list, result |-> result]

ToolsInit ==
  /\ PolicyIdle
  /\ now = 0
  /\ AuditConstructed(TRUE)
  /\ GatewayConstructed
  /\ LimiterIdle
  /\ ProxyIdle
  /\ MeterIdle
  /\ AuthIdle
  /\ TrackerIdle
  /\ ToolsIdle

\* registry.registerTools(id, tools)
ToolsRegister(id, list) ==
  /\ catalog' = registerTools(catalog, id, list)
  /\ toolOp' = <<ToolCall("register", id, Undefined, list, Undefined)>>

\* registry.addServer({id, ...})
ToolsAdd(id) ==
  /\ Len(catalog.servers) < MaxServers \/ IndexOf(catalog.servers, id) # 0
  /\ catalog' = addServer(catalog, id)
  /\ toolOp' = <<ToolCall("add", id, Undefined, <<>>, Undefined)>>

\* registry.removeServer(id)
ToolsRemove(id) ==
  /\ catalog' = removeServer(catalog, id)
  /\ toolOp' = <<ToolCall("remove", id, Undefined, <<>>, Undefined)>>

\* registry.findServerForTool(name): the id of the server returned, or
\* undefined
ToolsFind(name) ==
  LET k == findServerForTool(catalog.servers, catalog.tools, name) IN
  /\ toolOp' = <<ToolCall("find", Undefined, name, <<>>,
                          IF k = 0 THEN Undefined ELSE catalog.servers[k])>>
  /\ UNCHANGED catalog

ToolsNext ==
  \/ (\E id \in ServerIds, list \in ToolLists : ToolsRegister(id, list))
       /\ UNCHANGED <<policyVars, now, auditVars, gatewayVars, limiterVars,
                      proxyVars, meterVars, authVars, trackerVars, registryVars>>
  \/ (\E id \in ServerIds : ToolsAdd(id))
       /\ UNCHANGED <<policyVars, now, auditVars, gatewayVars, limiterVars,
                      proxyVars, meterVars, authVars, trackerVars, registryVars>>
  \/ (\E id \in ServerIds : ToolsRemove(id))
       /\ UNCHANGED <<policyVars, now, auditVars, gatewayVars, limiterVars,
                      proxyVars, meterVars, authVars, trackerVars, registryVars>>
  \/ (\E name \in {GetX, DeleteX, PutX} : ToolsFind(name))
       /\ UNCHANGED <<policyVars, now, auditVars, gatewayVars, limiterVars,
                      proxyVars, meterVars, authVars, trackerVars, registryVars>>

SpecTools == ToolsInit /\ [][ToolsNext]_vars

(***************************************************************************)
(* SpecTracker: one RequestTracker on its own.  Requests are started with  *)
(* a short or a long timeout and completed at any time, also twice and     *)
(* after their timeout; drain() is called once, at any time, and polls     *)
(* every 100 ms; timers run when they are due, and the clock advances from *)
(* one due instant to the next.                                            *)
(***************************************************************************)
MaxStarts == 3

MaxTrackerPolls == 4

Timeouts == {PollMs, 3 * PollMs}

MaxWaits == {0, 2 * PollMs}

TrackerCall(op, id) == [op |-> op, id |-> id]

TrackerInit ==
  /\ PolicyIdle
  /\ now = 0
  /\ AuditConstructed(TRUE)
  /\ GatewayConstructed
  /\ LimiterIdle
  /\ ProxyIdle
  /\ MeterIdle
  /\ AuthIdle
  /\ ToolsIdle
  /\ TrackerIdle

\* tracker.start(timeoutMs)
TrackerStart(timeoutMs) ==
  /\ tracker.ids < MaxStarts
  /\ tracker' = start(tracker, timeoutMs, now)
  /\ trackerLog' = [trackerLog EXCEPT
                      !.last = <<TrackerCall("start", tracker.ids + 1)>>]
  /\ UNCHANGED now

\* tracker.complete(id), for an id that start returned
TrackerComplete(id) ==
  /\ id <= tracker.ids
  /\ tracker' = complete(tracker, id)
  /\ trackerLog' = [trackerLog EXCEPT
                      !.completed = IF id \in DOMAIN tracker.active
                                      THEN @ \cup {id} ELSE @,
                      !.last = <<TrackerCall("complete", id)>>]
  /\ UNCHANGED now

\* The timeout timer of request id is due and runs.
TrackerTimeout(id) ==
  /\ id \in DOMAIN tracker.timers
  /\ now >= tracker.timers[id]
  /\ tracker' = onRequestTimeout(tracker, id)
  /\ trackerLog' = [trackerLog EXCEPT
                      !.timedOut = @ \cup {id},
                      !.last = <<TrackerCall("timeout", id)>>]
  /\ UNCHANGED now

\* drain() from the test of its loop on, for the call made at time begun:
\* it awaits the next poll, or aborts what is active and returns.
DrainFrom(t, begun, maxWaitMs) ==
  IF drainWaits(t, begun, maxWaitMs, now)
    THEN /\ tracker' = t
         /\ trackerLog' = [trackerLog EXCEPT
                             !.drain = [pc |-> "waiting", begun |-> begun,
                                        maxWaitMs |-> maxWaitMs,
                                        wake |-> now + PollMs],
                             !.last = <<TrackerCall("drain", 0)>>]
    ELSE /\ tracker' = endDrain(t)
         /\ trackerLog' = [trackerLog EXCEPT
                             !.drain = [pc |-> "returned", begun |-> begun,
                                        maxWaitMs |-> maxWaitMs, wake |-> 0],
                             !.forced = @ \cup DOMAIN t.active,
                             !.last = <<TrackerCall("drained", 0)>>]

\* tracker.drain(maxWaitMs), up to its first await or to its return
TrackerDrain(maxWaitMs) ==
  /\ trackerLog.drain.pc = "idle"
  /\ DrainFrom(beginDrain(tracker), now, maxWaitMs)
  /\ UNCHANGED now

\* drain() resumes after its await of 100 ms.
TrackerDrainWake ==
  /\ trackerLog.drain.pc = "waiting"
  /\ now >= trackerLog.drain.wake
  /\ DrainFrom(tracker, trackerLog.drain.begun, trackerLog.drain.maxWaitMs)
  /\ UNCHANGED now

\* The instants at which a timer of the tracker is due
TrackerDues ==
  {tracker.timers[id] : id \in DOMAIN tracker.timers}
    \cup (IF trackerLog.drain.pc = "waiting" THEN {trackerLog.drain.wake} ELSE {})

\* Time passes up to the next instant a timer is due.
TrackerTick ==
  /\ TrackerDues # {}
  /\ \A due \in TrackerDues : now < due
  /\ \E due \in TrackerDues :
       /\ \A other \in TrackerDues : due <= other
       /\ due <= MaxTrackerPolls * PollMs
       /\ now' = due
  /\ UNCHANGED trackerVars

TrackerNext ==
  \/ (\E timeoutMs \in Timeouts : TrackerStart(timeoutMs))
       /\ UNCHANGED <<policyVars, auditVars, gatewayVars, limiterVars,
                      proxyVars, meterVars, authVars, toolVars, registryVars>>
  \/ (\E id \in 1..MaxStarts : TrackerComplete(id))
       /\ UNCHANGED <<policyVars, auditVars, gatewayVars, limiterVars,
                      proxyVars, meterVars, authVars, toolVars, registryVars>>
  \/ (\E id \in 1..MaxStarts : TrackerTimeout(id))
       /\ UNCHANGED <<policyVars, auditVars, gatewayVars, limiterVars,
                      proxyVars, meterVars, authVars, toolVars, registryVars>>
  \/ (\E maxWaitMs \in MaxWaits : TrackerDrain(maxWaitMs))
       /\ UNCHANGED <<policyVars, auditVars, gatewayVars, limiterVars,
                      proxyVars, meterVars, authVars, toolVars, registryVars>>
  \/ TrackerDrainWake
       /\ UNCHANGED <<policyVars, auditVars, gatewayVars, limiterVars,
                      proxyVars, meterVars, authVars, toolVars, registryVars>>
  \/ TrackerTick
       /\ UNCHANGED <<policyVars, auditVars, gatewayVars, limiterVars,
                      proxyVars, meterVars, authVars, toolVars, registryVars>>

SpecTracker == TrackerInit /\ [][TrackerNext]_vars

(***************************************************************************)
(* SpecRegistry: one ServerRegistry on its own.  Its methods are called in *)
(* any order; a child may fail to spawn, exit by itself with code 0 or 1,  *)
(* or exit by a signal it was sent, and it may also stay alive after       *)
(* SIGTERM; timers run when they are due, and the clock advances from one  *)
(* due instant to the next.                                                *)
(***************************************************************************)
MaxChildren == 2

\* The gateway's servers and one that is disabled
RegistryServers ==
  GatewayConfig.servers \o <<[id |-> <<"o", "f", "f">>, enabled |-> FALSE]>>

RegistryInit ==
  /\ PolicyIdle
  /\ now = 0
  /\ AuditConstructed(TRUE)
  /\ NewGatewayOf(MaxCalls, RegistryServers)
  /\ UnitsIdle

\* registry.startServer(id), up to its await
RegStart(i, spawned) ==
  /\ Len(registry.children) < MaxChildren
  /\ registry' = startServer(registry, i, spawned, now)
  /\ UNCHANGED now

\* registry.stopServer(id)
RegStop(i) ==
  /\ registry' = stopServer(registry, i, now)
  /\ UNCHANGED now

\* registry.stopAll()
RegStopAll ==
  /\ registry' = stopAll(registry, now)
  /\ UNCHANGED now

\* A timer is due and runs: startServer resumes, or stopServer's callback.
RegTimer(timer) ==
  /\ now >= timer.due
  /\ registry' = IF timer.kind = "kill" THEN forceKill(registry, timer)
                 ELSE resumeStart(registry, timer)
  /\ UNCHANGED now

\* A child exits; its "exit" observer runs.
RegChildExit(c, code) ==
  /\ CanExitWith(registry.children[c], code)
  /\ registry' = onExit(registry, c, code)
  /\ UNCHANGED now

\* Time passes up to the instant the next timer is due.
RegTick ==
  /\ registry.timers # {}
  /\ \A t \in registry.timers : now < t.due
  /\ \E t \in registry.timers :
       /\ \A u \in registry.timers : t.due <= u.due
       /\ now' = t.due
  /\ UNCHANGED registry

RegistryNext ==
  \/ (\E i \in 1..(Len(registry.servers) + 1), spawned \in BOOLEAN : RegStart(i, spawned))
       /\ UNCHANGED <<policyVars, auditVars, gatewayVars, unitVars>>
  \/ (\E i \in 1..Len(registry.servers) : RegStop(i))
       /\ UNCHANGED <<policyVars, auditVars, gatewayVars, unitVars>>
  \/ RegStopAll
       /\ UNCHANGED <<policyVars, auditVars, gatewayVars, unitVars>>
  \/ (\E timer \in registry.timers : RegTimer(timer))
       /\ UNCHANGED <<policyVars, auditVars, gatewayVars, unitVars>>
  \/ (\E c \in 1..Len(registry.children), code \in ExitCodes : RegChildExit(c, code))
       /\ UNCHANGED <<policyVars, auditVars, gatewayVars, unitVars>>
  \/ RegTick
       /\ UNCHANGED <<policyVars, auditVars, gatewayVars, unitVars>>

SpecRegistry == RegistryInit /\ [][RegistryNext]_vars

\* The event loop runs a timer that is due, and time passes; nothing makes
\* an operator call a method of the registry, or a child exit.
SpecRegistryLive ==
  /\ SpecRegistry
  /\ WF_vars((\E timer \in registry.timers : RegTimer(timer))
               /\ UNCHANGED <<policyVars, auditVars, gatewayVars, unitVars>>)
  /\ WF_vars(RegTick
               /\ UNCHANGED <<policyVars, auditVars, gatewayVars, unitVars>>)

(***************************************************************************)
(* Claims about PolicyEngine.evaluate, checked under SpecPolicy.           *)
(***************************************************************************)
Evaluated == pDecision # <<>>

Returned == pDecision[1]

NoStarPolicy ==
  \A p \in 1..Len(pPolicies) :
    \A j \in 1..Len(pPolicies[p].roles) : pPolicies[p].roles[j] # "*"

\* C8 as stated: for every policy set, also one with a policy whose roles
\* contain "*", a caller with an empty role set is denied.
C8_EmptyRolesDeniedAlways ==
  (Evaluated /\ pCtx.roles = <<>>) => ~Returned.allowed

\* C8 amended: for every policy set in which no policy's roles contain "*",
\* a caller with an empty role set is denied, with the default-deny reason,
\* for every server, tool and argument map.
C8_EmptyRolesDeniedWithoutStar ==
  (Evaluated /\ pCtx.roles = <<>> /\ NoStarPolicy) =>
    /\ ~Returned.allowed
    /\ Returned.reason = <<"No matching policy rules (default deny)">>

\* C8 witness: an empty-role caller asked for get_x, which the reader policy
\* of the same set allows for readers, and was answered.
C8_Witness ==
  /\ Evaluated
  /\ pCtx.roles = <<>>
  /\ pPolicies = TestPolicies
  /\ pTool = GetX
  /\ ~Returned.allowed

IsRestrictionCall(tool) ==
  /\ Evaluated
  /\ pPolicies = RestrictionPolicies
  /\ pCtx = ReaderCtx
  /\ pServer = Pay
  /\ pTool = tool

Applicable == ApplicableRules(pPolicies, pCtx, pServer, pTool, 1)

Swap(seq, i, j) ==
  [k \in 1..Len(seq) |-> IF k = i THEN seq[j] ELSE IF k = j THEN seq[i] ELSE seq[k]]

EqualSpecificityPairs ==
  {ij \in (1..Len(Applicable)) \X (1..Len(Applicable)) :
     /\ ij[1] < ij[2]
     /\ Specificity(Applicable[ij[1]].rule) = Specificity(Applicable[ij[2]].rule)}

\* C10 as stated: exchanging the configuration order of two rules of equal
\* specificity that both match the call's scope leaves the decision unchanged.
C10_OrderIrrelevant ==
  Evaluated =>
    \A ij \in EqualSpecificityPairs :
      Decide(Swap(Applicable, ij[1], ij[2]), pArgs) = Returned

\* C10 amended: exchanging the configuration order of two rules of equal
\* specificity that both match the call's scope leaves allowed/denied
\* unchanged when the two rules carry the same action and the conditions of
\* both hold for the call; otherwise the rule configured first wins.
C10_OrderIrrelevantSameAction ==
  Evaluated =>
    \A ij \in EqualSpecificityPairs :
      ( /\ Applicable[ij[1]].rule.action = Applicable[ij[2]].rule.action
        /\ ConditionsMet(Applicable[ij[1]].rule, pArgs)
        /\ ConditionsMet(Applicable[ij[2]].rule, pArgs) )
      => Decide(Swap(Applicable, ij[1], ij[2]), pArgs).allowed = Returned.allowed

\* C10 witness: two rules of equal specificity and equal action, both
\* matching the call, with a rule of the opposite action between them, and
\* the first of them decided the call.
C10_Witness ==
  /\ Evaluated
  /\ Len(Applicable) = 3
  /\ Specificity(Applicable[1].rule) = Specificity(Applicable[3].rule)
  /\ Specificity(Applicable[1].rule) = Specificity(Applicable[2].rule)
  /\ Applicable[1].rule.action = Applicable[3].rule.action
  /\ Applicable[1].rule # Applicable[3].rule
  /\ Applicable[2].rule.action # Applicable[1].rule.action
  /\ ConditionsMet(Applicable[1].rule, pArgs)
  /\ ConditionsMet(Applicable[2].rule, pArgs)
  /\ ConditionsMet(Applicable[3].rule, pArgs)
  /\ Returned.matchedRule = <<Applicable[1].rule>>

(***************************************************************************)
(* Claims about the audit hash chain, checked under SpecAudit.             *)
(***************************************************************************)
ChainLinked ==
  \A k \in 1..(Len(auditRows) - 1) :
    auditRows[k + 1].prevHash = auditRows[k].hash

\* C5: with the hash chain enabled, after any sequence of log calls on one
\* file, with the log closed and constructed again between calls, every two
\* adjacent rows (a, b) satisfy b.prevHash = a.hash and verify() returns
\* valid: true (nothing but the log having written to the file).
C5_ChainLinkedAcrossReopen ==
  (hashChain /\ tampered = <<>>) =>
    /\ ChainLinked
    /\ verified # <<>> => verified[1] = [valid |-> TRUE, brokenAt |-> Undefined]

\* C6: modifying any one column of a persisted row k makes verify() return
\* valid: false with brokenAt = k's id.
C6_AnyModificationBreaksAtK ==
  (hashChain /\ tampered # <<>> /\ verified # <<>>) =>
    verified[1] = [valid |-> FALSE, brokenAt |-> auditRows[tampered[1]].id]

\* C7: with the chain enabled, the first row persisted to an empty file has
\* prevHash "genesis" and no later row has.
C7_GenesisOnlyFirst ==
  (hashChain /\ tampered = <<>>) =>
    \A k \in 1..Len(auditRows) : (auditRows[k].prevHash = Genesis) <=> (k = 1)

(***************************************************************************)
(* Claims about Gateway.callTool, checked under Spec.  What each call did  *)
(* is read from its events: the request it forwarded, the audit rows it    *)
(* wrote (by row number) and its calls of Meter.record.                    *)
(***************************************************************************)
EventsOf(c, kind) == SelectSeq(calls[c].events, LAMBDA e : e.kind = kind)

\* callTool returned a value to its caller (it did not throw).
CallReturned(c) == calls[c].pc = "done" /\ calls[c].result # "threw"

Forwarded(c) == EventsOf(c, "forward") # <<>>

RateRejected(c) ==
  calls[c].rateResult # <<>> /\ ~calls[c].rateResult[1].allowed

RateKeyOf(c) == calls[c].ctx.consumerId \o <<":">> \o calls[c].serverId

\* C1: whichever path callTool takes (tool not found, denied, rate-limited,
\* no proxy for the resolved server, proxy success, proxy failure or
\* timeout), exactly one audit entry has been written for the call when it
\* returns.
C1_OneAuditEntryPerReturn ==
  \A c \in 1..MaxCalls :
    CallReturned(c) => Len(EventsOf(c, "audit")) = 1

\* C2: a call is forwarded to a proxy only if the policy engine allowed it
\* and the limiter admitted the key consumerId:serverId for it; a call the
\* limiter rejected is never forwarded and never metered, every audit row
\* it wrote has status rate-limited, and it wrote exactly one when it
\* returned its rate-limited result.
C2_ForwardOnlyAllowedAndAdmitted ==
  \A c \in 1..MaxCalls :
    /\ Forwarded(c) =>
         /\ calls[c].decision # <<>> /\ calls[c].decision[1].allowed
         /\ calls[c].rateResult # <<>> /\ calls[c].rateResult[1].allowed
         /\ RateKeyOf(c) \in DOMAIN windows
         /\ windows[RateKeyOf(c)].count >= 1
    /\ RateRejected(c) =>
         /\ ~Forwarded(c)
         /\ EventsOf(c, "meter") = <<>>
         /\ calls[c].pc = "done" /\ calls[c].result \in {"rateLimited", "threw"}
         /\ \A i \in 1..Len(EventsOf(c, "audit")) :
              LET row == auditRows[EventsOf(c, "audit")[i].row] IN
              /\ row.status = <<"rate-limited">>
              /\ row.consumerId = calls[c].ctx.consumerId
              /\ row.serverId = calls[c].serverId
              /\ row.tool = calls[c].toolName
         /\ calls[c].result = "rateLimited" => Len(EventsOf(c, "audit")) = 1

\* A call was rejected by the limiter and returned its rate-limited result
\* while an earlier call of the same key had been forwarded.
C2_Witness ==
  \E c, d \in 1..MaxCalls :
    /\ RateRejected(c) /\ calls[c].result = "rateLimited"
    /\ Forwarded(d) /\ RateKeyOf(d) = RateKeyOf(c)

\* The step in which call c is begun and denied by the policy engine.
DeniedStep(c) ==
  /\ calls[c].pc = "idle"
  /\ calls'[c].pc # "idle"
  /\ calls'[c].decision # <<>>
  /\ ~calls'[c].decision[1].allowed

\* C3: a policy denial changes neither the limiter's windows nor the meter
\* nor any proxy's correlation table nor any other call; when the call
\* returns its denied result, the one thing added is one audit row, with
\* status denied and the decision's reason as its error.
C3_DenialTouchesOnlyAudit ==
  [][\A c \in 1..MaxCalls :
       DeniedStep(c) =>
         /\ windows' = windows
         /\ meter' = meter
         /\ proxies' = proxies
         /\ \A d \in (1..MaxCalls) \ {c} : calls'[d] = calls[d]
         /\ calls'[c].rateResult = <<>>
         /\ calls'[c].result \in {"denied", "threw"}
         /\ calls'[c].result = "threw" => auditRows' = auditRows
         /\ calls'[c].result = "denied" =>
              /\ Len(auditRows') = Len(auditRows) + 1
              /\ SubSeq(auditRows', 1, Len(auditRows)) = auditRows
              /\ auditRows'[Len(auditRows')].status = <<"denied">>
              /\ auditRows'[Len(auditRows')].error = calls'[c].decision[1].reason
              /\ auditRows'[Len(auditRows')].tool = calls'[c].toolName
              /\ auditRows'[Len(auditRows')].consumerId = calls'[c].ctx.consumerId]_vars

\* A call returned its denied result, its audit row is in the table, and
\* the limiter holds a window and a proxy a pending request that the denial
\* could have touched.
C3_Witness ==
  \E c \in 1..MaxCalls :
    /\ calls[c].result = "denied"
    /\ Len(EventsOf(c, "audit")) = 1
    /\ auditRows[EventsOf(c, "audit")[1].row].status = <<"denied">>
    /\ windows # EmptyMap
    /\ \E d \in 1..(c - 1) : calls[d].pc = "awaiting" /\ calls[d].startTime < calls[c].startTime

\* C4: every call that reached the proxy and is over wrote one audit row
\* whose status is the proxy's outcome (success for a result; error, with
\* the error's message, for an error reply, a timeout or a destroyed
\* proxy), and then called Meter.record once, with isError false on success
\* and true on failure.
C4_AuditMatchesOutcomeThenMeter ==
  \A c \in 1..MaxCalls :
    (Forwarded(c) /\ calls[c].pc = "done") =>
      LET outcome == calls[c].outcome[1]
          failed == outcome.state = "rejected"
          events == calls[c].events
      IN /\ Len(events) = 3
         /\ events[1].kind = "forward"
         /\ events[2].kind = "audit"
         /\ events[3] = Event("meter", 0, failed)
         /\ auditRows[events[2].row].status =
              IF failed THEN <<"error">> ELSE <<"success">>
         /\ failed => auditRows[events[2].row].error = outcome.message

(***************************************************************************)
(* Claims about RateLimiter, checked under SpecLimiter.                    *)
(***************************************************************************)
Checked == lastCheck # <<>>

Last == lastCheck[1]

\* cap = ceil(limit x burstMultiplier) for the limit a key is checked with
CapOf(key) ==
  LET limit == IF limits[key] # 0 THEN limits[key] ELSE limiter.defaultPerMinute
      product == limit * limiter.burstMultiplier.num
      den == limiter.burstMultiplier.den
  IN IF product % den = 0 THEN product \div den ELSE (product \div den) + 1

Least(a, b) == IF a <= b THEN a ELSE b

\* C11: the n-th check made in a key's 60-second window is admitted exactly
\* when n <= cap, an admitted one returns remaining = cap - n and a rejected
\* one remaining 0, and the window counts the admitted checks only: its
\* count is n up to cap and stays cap from then on.
C11_AdmitsAtMostCap ==
  Checked =>
    LET n == opened[Last.key].checks
        cap == CapOf(Last.key)
    IN /\ Last.result.allowed <=> n <= cap
       /\ Last.result.remaining = (IF n <= cap THEN cap - n ELSE 0)
       /\ Last.after[1].count = Least(n, cap)
       /\ Last.after[1].count <= cap
       /\ ~Last.result.allowed =>
            Last.after[1].count =
              (IF Last.before = <<>> THEN 0
               ELSE IF Last.at >= Last.before[1].resetAt THEN 0
               ELSE Last.before[1].count)

\* A check was rejected in a window that had admitted cap >= 1 checks.
C11_Witness ==
  /\ Checked
  /\ ~Last.result.allowed
  /\ CapOf(Last.key) >= 2
  /\ Last.after[1].count = CapOf(Last.key)
  /\ opened[Last.key].checks = CapOf(Last.key) + 1

\* C12: whatever checks the other key received, a key's window is the one
\* of a limiter that served this key alone, and every check returns what
\* that limiter returns; a check of one key (the steps that change
\* `opened') leaves the other key's window as it was.
C12_KeysIsolated ==
  /\ [](/\ \A k \in Keys : WindowOf(windows, k) = WindowOf(alone[k], k)
        /\ Checked => Last.result = Last.solo)
  /\ [][\A k \in Keys :
          (opened' # opened /\ lastCheck'[1].key # k)
            => WindowOf(windows', k) = WindowOf(windows, k)]_vars

\* Key a has used up its window and key b is admitted all the same.
C12_Witness ==
  /\ Checked
  /\ Last.key = KeyB /\ Last.result.allowed
  /\ KeyA \in DOMAIN windows /\ now < windows[KeyA].resetAt
  /\ CapOf(KeyA) >= 1 /\ windows[KeyA].count = CapOf(KeyA)
  /\ opened[KeyA].checks > CapOf(KeyA)

\* C13: a check made at or after resetAt of the key's window replaces the
\* window by one that ends 60 s later and holds this check alone, and it
\* is admitted when cap >= 1; as long as now < resetAt no step changes
\* resetAt of the window or removes it.
C13_RejectionEndsWithWindow ==
  /\ [](Checked /\ Last.before # <<>> /\ Last.at >= Last.before[1].resetAt
          => /\ Last.after[1].resetAt = Last.at + WindowMs
             /\ Last.result.resetAt = Last.at + WindowMs
             /\ Last.after[1].count = Least(1, CapOf(Last.key))
             /\ CapOf(Last.key) >= 1 =>
                  Last.result.allowed
                    /\ Last.result.remaining = CapOf(Last.key) - 1)
  /\ [][\A k \in DOMAIN windows :
          now < windows[k].resetAt
            => k \in DOMAIN windows' /\ windows'[k].resetAt = windows[k].resetAt]_vars

\* A key that was being rejected is admitted by the first check after its
\* window ended.
C13_Witness ==
  /\ Checked
  /\ Last.before # <<>>
  /\ Last.at >= Last.before[1].resetAt
  /\ Last.before[1].count = CapOf(Last.key)
  /\ CapOf(Last.key) >= 1
  /\ Last.result.allowed

(***************************************************************************)
(* Claims about McpProxy, checked under SpecProxy and SpecProxyLive.       *)
(***************************************************************************)
Requested == DOMAIN mcp.promises

CallsOf(id) == mcp.promises[id].calls

HasSettled(id) == CallsOf(id) # <<>>

LastEvent == mcpLast[1]

\* C14: resolve or reject is called at most once for a request; the call
\* is made by the step that removes the request from the correlation
\* table, and from then on the request has no entry and no timer; no later
\* step touches a settled request, and a reply that finds no entry for its
\* id leaves the proxy as it was.
C14_CompletedAtMostOnce ==
  /\ [](\A id \in Requested :
          /\ Len(CallsOf(id)) <= 1
          /\ HasSettled(id) <=> id \notin DOMAIN mcp.pending
          /\ HasSettled(id) => id \notin DOMAIN mcp.timers)
  /\ [][/\ \A id \in Requested :
             HasSettled(id) => /\ mcp'.promises[id] = mcp.promises[id]
                               /\ id \notin DOMAIN mcp'.pending
        /\ (mcpLast' # <<>> /\ mcpLast'[1].kind \in MessageKinds
              /\ ~mcpLast'[1].found) => mcp' = mcp]_vars

\* A result arrived for a request after its timeout had rejected it.
C14_Witness ==
  /\ mcpLast # <<>>
  /\ LastEvent.kind = "result" /\ ~LastEvent.found
  /\ LastEvent.id \in Requested
  /\ CallsOf(LastEvent.id) = <<Rejection(TimeoutMessage(ToolsCall))>>

\* C15: every request made settles at some point, whatever the backend
\* does; until it has, its deadline has not passed; once it has, its id is
\* not in the correlation table.
C15_EveryRequestSettles ==
  /\ \A id \in 1..MaxRequests :
       [](id \in Requested => <>(id \in Requested /\ HasSettled(id)))
  /\ [](\A id \in Requested :
          /\ ~HasSettled(id) => now <= mcp.promises[id].deadline
          /\ HasSettled(id) => id \notin DOMAIN mcp.pending)

\* A request the backend never answered was rejected by its timer.
C15_Witness ==
  /\ mcp.requestId = 1
  /\ CallsOf(1) = <<Rejection(TimeoutMessage(ToolsCall))>>
  /\ now = mcp.promises[1].deadline
  /\ 1 \notin DOMAIN mcp.pending

\* C16: a request that was pending when destroy() ran was rejected with
\* "Proxy destroyed" and with nothing else, then or later, and has no timer
\* and no entry; destroy() leaves the correlation table empty and no timer
\* armed.
C16_DestroyRejectsAllPending ==
  /\ \A id \in doomed :
       /\ CallsOf(id) = <<Rejection(DestroyedMessage)>>
       /\ id \notin DOMAIN mcp.timers
       /\ id \notin DOMAIN mcp.pending
  /\ (mcpLast # <<>> /\ LastEvent.kind = "destroy")
       => mcp.pending = EmptyMap /\ mcp.timers = EmptyMap

\* destroy() ran with two requests pending; their deadline has passed
\* since, and a reply for one of them has arrived.
C16_Witness ==
  /\ doomed = {1, 2}
  /\ now > mcp.promises[1].deadline /\ now > mcp.promises[2].deadline
  /\ mcpLast # <<>> /\ LastEvent.kind = "result" /\ LastEvent.id \in doomed

(***************************************************************************)
(* Claims about the gateway and its backends' processes, checked under     *)
(* Spec.                                                                   *)
(***************************************************************************)
\* C17: a call made while the registry holds no process for the tool's
\* server (the child has exited or failed, or the server was stopped) is
\* not forwarded: it sends no request and returns the not-running error.
C17_DeadBackendNotRunning ==
  \A c \in 1..MaxCalls :
    (calls[c].backendDown /\ calls[c].decision # <<>>
       /\ calls[c].decision[1].allowed
       /\ calls[c].rateResult # <<>> /\ calls[c].rateResult[1].allowed)
      => /\ ~Forwarded(c)
         /\ calls[c].pc = "done" /\ calls[c].result = "notRunning"

\* C18: no call is rejected by the shutdown: a call that was awaiting its
\* backend when stop() began gets the backend's reply or its timeout, and
\* once it is over it has its audit entry.
C18_StopDrainsInFlight ==
  \A c \in 1..MaxCalls :
    Forwarded(c) =>
      /\ calls[c].outcome # <<>> =>
           calls[c].outcome[1] # Rejection(DestroyedMessage)
      /\ calls[c].pc = "done" => Len(EventsOf(c, "audit")) = 1

(***************************************************************************)
(* Claims about ServerRegistry, checked under SpecRegistry.                *)
(***************************************************************************)
\* C19: once the timer armed by the stopServer call that sent a child
\* SIGTERM has run, the child has exited or has been sent SIGKILL.
C19_ForceKillAfterGrace ==
  \A c \in 1..Len(registry.children) :
    registry.children[c].graceOver =>
      \/ ~registry.children[c].alive
      \/ registry.children[c].signal = "SIGKILL"

\* The step is the "exit" event of child c.
ExitStep(c) ==
  /\ c \in 1..Len(registry.children)
  /\ registry.children[c].alive
  /\ ~registry'.children[c].alive

\* The step is a startServer call for server i that spawns a child.
StartStep(i) ==
  /\ Len(registry'.children) = Len(registry.children) + 1
  /\ registry'.children[Len(registry'.children)].server = i

\* C20: an exit with a code 1 and a failure to spawn leave the server in
\* status error with lastError telling the cause; a server in status
\* error stays in status error, and holds no process, in every step that
\* is not a startServer call for it.
C20_ErrorUntilRestart ==
  [][\A i \in 1..Len(registry.servers) :
       /\ \A c \in 1..Len(registry.children) :
            (ExitStep(c) /\ registry.children[c].server = i
               /\ registry'.children[c].exitCode = 1)
              => /\ registry'.servers[i].status = "error"
                 /\ registry'.servers[i].lastError
                      = <<"Exited with code ">> \o Decimal(1)
       /\ (StartStep(i) /\ ~registry'.children[Len(registry'.children)].spawned)
            => /\ registry'.servers[i].status = "error"
               /\ registry'.servers[i].lastError = SpawnErrorMessage
       /\ (registry.servers[i].status = "error" /\ ~StartStep(i))
            => /\ registry'.servers[i].status = "error"
               /\ registry'.servers[i].process = 0]_vars

\* Server i has crashed: a child of it exited with code 1, and the server
\* is in status error since.
Crashed(i) ==
  /\ registry.servers[i].status = "error"
  /\ \E c \in 1..Len(registry.children) :
       registry.children[c].server = i /\ registry.children[c].exitCode = 1

\* C21: a server that has crashed is eventually running again, whether or
\* not an operator calls startServer.
C21_CrashedRestarts ==
  \A i \in 1..Len(GatewayConfig.servers) :
    Crashed(i) ~> (registry.servers[i].status = "running")

\* C22: a startServer call for a server that was started before adds one to
\* the server's restarts, and no step lowers restarts.
C22_RestartsCounted ==
  [][\A i \in 1..Len(registry.servers) :
       /\ (StartStep(i) /\ \E c \in 1..Len(registry.children) :
                              registry.children[c].server = i)
            => registry'.servers[i].restarts = registry.servers[i].restarts + 1
       /\ registry'.servers[i].restarts >= registry.servers[i].restarts]_vars

(***************************************************************************)
(* Claims about Meter, checked under SpecMeter.                            *)
(***************************************************************************)
\* The record calls made for consumer c
RecordsOf(c) == {k \in 1..Len(recorded) : recorded[k].consumerId = c}

\* The value of a key of byServer or byTool; an absent key counts 0.
CountAt(object, key) == IF key \in DOMAIN object THEN object[key] ELSE 0

\* C23: whatever records, flushes, summaries and changes of period came
\* before, getSummary(c) returns the number of record calls made for c,
\* the number of those with isError, and for each server and each tool the
\* number of those calls; nothing else is counted.
C23_SummaryCountsRecords ==
  summary # <<>> =>
    LET c == summary[1].consumerId
        r == summary[1].result
    IN /\ r.totalCalls = Cardinality(RecordsOf(c))
       /\ r.totalErrors =
            Cardinality({k \in RecordsOf(c) : recorded[k].isError})
       /\ \A s \in MeterServers \cup DOMAIN r.byServer :
            CountAt(r.byServer, s) =
              Cardinality({k \in RecordsOf(c) : recorded[k].serverId = s})
       /\ \A t \in MeterTools \cup DOMAIN r.byTool :
            CountAt(r.byTool, t) =
              Cardinality({k \in RecordsOf(c) : recorded[k].tool = t})

(***************************************************************************)
(* Claims about Authenticator, checked under SpecAuth.                     *)
(***************************************************************************)
\* The record is enabled and the clock is not past its expiry.
Usable(rec) ==
  /\ rec.enabled
  /\ ~(rec.expiresAt \notin {Undefined, <<>>}
         /\ NewDate(rec.expiresAt).valid
         /\ NewDate(rec.expiresAt).ms < now)

ContextOf(rec) ==
  [consumerId |-> rec.consumerId, apiKeyId |-> rec.id, roles |-> rec.roles,
   rateLimit |-> rec.rateLimit]

\* The records of the key map that the credential names, verbatim or by
\* its SHA-256 hex
Named ==
  IF credentials \in {Undefined, <<>>} THEN {}
  ELSE {authenticator.keyMap[k] :
          k \in {credentials, Sha256Hex(credentials)}
                 \cap DOMAIN authenticator.keyMap}

\* The record the credential names verbatim and, only when it names none
\* verbatim, the one its SHA-256 hex names
NamedFirst ==
  IF credentials \in {Undefined, <<>>} THEN {}
  ELSE IF credentials \in DOMAIN authenticator.keyMap
    THEN {authenticator.keyMap[credentials]}
  ELSE {authenticator.keyMap[k] :
          k \in {Sha256Hex(credentials)} \cap DOMAIN authenticator.keyMap}

ApiKeyCall ==
  authenticated # <<>> /\ authenticator.config.type = "api-key"

\* C24 as stated: in api-key mode authenticate returns a context exactly
\* when the credential, verbatim or as its SHA-256 hex, is the key of a
\* record that is enabled and not past its expiry, and then the context is
\* that record's; otherwise it returns null.
C24_ContextIffSomeUsableKey ==
  ApiKeyCall =>
    /\ (authenticated[1] # Null) <=> (\E rec \in Named : Usable(rec))
    /\ authenticated[1] # Null =>
         \E rec \in Named : Usable(rec) /\ authenticated[1] = ContextOf(rec)

\* C24: in api-key mode authenticate returns a context exactly when the
\* record found for the credential (the one it names verbatim, looked up
\* by its SHA-256 hex only when there is none) is enabled and not past its
\* expiry; the context carries that record's consumerId, id, roles and
\* rate override; in every other case the result is null.
C24_ContextIffFoundKeyUsable ==
  ApiKeyCall =>
    /\ (authenticated[1] # Null) <=> (\E rec \in NamedFirst : Usable(rec))
    /\ authenticated[1] # Null =>
         \E rec \in NamedFirst : authenticated[1] = ContextOf(rec)

\* A key stored as its SHA-256 hex has authenticated the call, at a time
\* when another record of the configuration has expired.
C24_Witness ==
  /\ ApiKeyCall
  /\ credentials = KeyOne
  /\ authenticated[1] # Null
  /\ authenticated[1].apiKeyId = <<"k", "3">>
  /\ \E i \in 1..Len(authenticator.config.keys) :
       ~Usable(authenticator.config.keys[i])

(***************************************************************************)
(* Claims about the response column, checked under SpecAuditLong.          *)
(***************************************************************************)
\* C25: the response of every row log() persisted has at most
\* ResponseLimit units: it is the response log() was given when that has
\* at most ResponseLimit units, and its first ResponseLimit units when it
\* is longer.
C25_ResponseTruncated ==
  \A k \in 1..Len(auditRows) :
    LET given == writers[k].response
        stored == auditRows[k].response
    IN IF given = Undefined THEN stored = Undefined
       ELSE /\ Len(stored) <= ResponseLimit
            /\ Len(given) <= ResponseLimit => stored = given
            /\ Len(given) > ResponseLimit =>
                 /\ Len(stored) = ResponseLimit
                 /\ stored = SubSeq(given, 1, ResponseLimit)

\* A response longer than the limit and one of exactly the limit were
\* persisted.
C25_Witness ==
  /\ \E k \in 1..Len(auditRows) :
       writers[k].response # Undefined
         /\ Len(writers[k].response) > ResponseLimit
  /\ \E k \in 1..Len(auditRows) :
       writers[k].response # Undefined
         /\ Len(writers[k].response) = ResponseLimit

(***************************************************************************)
(* Claims about the rule that decides, checked under SpecPolicy.           *)
(***************************************************************************)
\* Every condition of the rule matches the arguments of the call; with no
\* argument map no parameter is present, so no condition matches.
ConditionsHold(rule) ==
  rule.hasConditions =>
    \A i \in 1..Len(rule.conditions) :
      pArgs.present /\ evaluateCondition(rule.conditions[i], pArgs.map)

\* An absent glob counts as "*".
GlobHolds(glob, value) == glob = Undefined \/ globMatch(glob, value)

RuleAt(at) == pPolicies[at[1]].rules[at[2]]

\* The rules <<policy, rule>> of role-matching policies whose globs match
\* the call and whose conditions all hold
Candidates ==
  {at \in {<<p, k>> : p \in 1..Len(pPolicies), k \in 1..MaxRules} :
     /\ at[2] <= Len(pPolicies[at[1]].rules)
     /\ RoleMatch(pPolicies[at[1]], pCtx)
     /\ GlobHolds(RuleAt(at).server, pServer)
     /\ GlobHolds(RuleAt(at).tool, pTool)
     /\ ConditionsHold(RuleAt(at))}

\* Specificity descending, then policy order, then rule order
ComesBefore(a, b) ==
  \/ Specificity(RuleAt(a)) > Specificity(RuleAt(b))
  \/ /\ Specificity(RuleAt(a)) = Specificity(RuleAt(b))
     /\ (a[1] < b[1] \/ (a[1] = b[1] /\ a[2] < b[2]))

\* C26: evaluate returns the action of the first candidate rule in that
\* order, and that rule as the matched rule; without a candidate it denies.
C26_FirstMatchingRuleDecides ==
  Evaluated =>
    IF Candidates = {} THEN ~Returned.allowed
    ELSE LET first == CHOOSE a \in Candidates :
                        \A b \in Candidates \ {a} : ComesBefore(a, b)
         IN /\ Returned.allowed = (RuleAt(first).action = "allow")
            /\ Returned.matchedRule = <<RuleAt(first)>>

\* C27: the rule that decided a call, when it carries conditions, has all
\* of them matched by the call's arguments; a call without an argument map
\* is decided by no rule that has a condition.
C27_ConditionalRuleNeedsArgs ==
  (Evaluated /\ Returned.matchedRule # <<>>) =>
    ConditionsHold(Returned.matchedRule[1])

(***************************************************************************)
(* Claims about the order of lastHash and the INSERT, checked under        *)
(* SpecAudit.                                                              *)
(***************************************************************************)
\* A step of log(): it drew one more id.
LogStep == uuids' = uuids + 1

Persisted == Len(auditRows') = Len(auditRows) + 1

\* C28: a log() call whose insert fails leaves lastHash unchanged, and a
\* log() call whose insert succeeds writes a row whose prevHash is the hash
\* of the last persisted row ("genesis" on an empty file) and leaves
\* lastHash at the hash of the row it wrote (chain enabled, nothing but
\* the log writing to the file).
C28_LastHashFollowsPersistedRows ==
  [][(LogStep /\ hashChain /\ tampered = <<>>) =>
       IF Persisted
         THEN /\ auditRows'[Len(auditRows')].prevHash = loadLastHash(auditRows)
              /\ lastHash' = auditRows'[Len(auditRows')].hash
         ELSE lastHash' = lastHash]_vars

(***************************************************************************)
(* Claims about the audit writes of concurrent callTool invocations,        *)
(* checked under SpecWrites.                                               *)
(***************************************************************************)
\* The position of a row's entry in the order in which log() built its
\* entries: log() draws the id and reads lastHash in the same task.
ReadOrder(row) == CHOOSE n \in 1..uuids : randomUUID(n) = row.id

\* C29: whatever the interleaving of the callTool invocations, no two
\* audit rows have the same prevHash, every row's prevHash is the hash of
\* the row persisted immediately before it, and the rows are in the order
\* in which their entries read lastHash.
C29_AuditWritesTotallyOrdered ==
  /\ \A j, k \in 1..Len(auditRows) :
       j < k => /\ auditRows[j].prevHash # auditRows[k].prevHash
                /\ ReadOrder(auditRows[j]) < ReadOrder(auditRows[k])
  /\ \A k \in 2..Len(auditRows) :
       auditRows[k].prevHash = auditRows[k - 1].hash

(***************************************************************************)
(* Claims about RateLimiter.cleanup, checked under SpecLimiter.            *)
(***************************************************************************)
\* C30: cleanup() is unobservable: every check returns the allowed,
\* remaining and resetAt that the same check returns from a limiter given
\* the same sequence of checks at the same instants and never cleaned up.
C30_CleanupUnobservable == Checked => Last.result = Last.plain

\* A check of a key whose window cleanup() had collected: the limiter never
\* cleaned up still held it.
C30_Witness ==
  /\ Checked
  /\ Last.before = <<>>
  /\ Last.kept # <<>>
  /\ Last.result.allowed

(***************************************************************************)
(* Claims about the request ids and the lines a McpProxy reads, checked    *)
(* under SpecProxy.                                                        *)
(***************************************************************************)
\* C31: request ids are strictly increasing and never reused (a request
\* takes an id greater than every id taken before and adds only its own
\* entry to the table); a message that carries the id of a pending request
\* and a result or an error removes that entry and completes that request
\* and no other; every other line (blank, not JSON, an object without id,
\* an object with neither result nor error, a reply whose id is not in the
\* table) leaves the proxy as it was.
C31_IdsFreshRepliesExact ==
  [][/\ mcp'.requestId >= mcp.requestId
     /\ mcp'.requestId # mcp.requestId =>
          /\ \A id \in Requested : id < mcp'.requestId
          /\ DOMAIN mcp'.pending = DOMAIN mcp.pending \cup {mcp'.requestId}
          /\ \A id \in Requested : mcp'.promises[id] = mcp.promises[id]
     /\ (mcpLast' # <<>> /\ mcpLast'[1].kind \in {LineName(l) : l \in Lines})
          => mcp' = mcp
     /\ (mcpLast' # <<>> /\ mcpLast'[1].kind \in MessageKinds) =>
          LET id == mcpLast'[1].id
              kind == mcpLast'[1].kind
          IN IF kind # "empty" /\ id \in DOMAIN mcp.pending
               THEN /\ DOMAIN mcp'.pending = DOMAIN mcp.pending \ {id}
                    /\ mcp'.requestId = mcp.requestId
                    /\ mcp'.promises[id].calls = <<Settlement(kind)>>
                    /\ \A other \in Requested \ {id} :
                         mcp'.promises[other] = mcp.promises[other]
               ELSE mcp' = mcp]_vars

\* An object with a result and no id arrived after the reply to request 1
\* had completed it, while request 2 was pending: request 2 still is.
C31_Witness ==
  /\ mcpLast # <<>> /\ LastEvent.kind = "resultNoId"
  /\ 1 \in Requested
  /\ CallsOf(1) = <<Settlement("result")>>
  /\ 2 \in DOMAIN mcp.pending

(***************************************************************************)
(* Claims about startServer, stopServer and the observers of a child,      *)
(* checked under SpecRegistry.                                             *)
(***************************************************************************)
Servers == 1..Len(registry.servers)

Children == 1..Len(registry.children)

\* The step declares server i running.
DeclaredRunning(i) ==
  registry.servers[i].status # "running" /\ registry'.servers[i].status = "running"

\* C32: no step spawns a child for a disabled server or changes its entry,
\* and no step spawns one for a server that is running with a process; a
\* startServer call that spawns a child leaves the status starting; and a
\* server is declared running only by the continuation of a startServer
\* call for it, once the settle interval of that call is over, the status
\* being starting and the child of that call having emitted no exit and
\* no error since.
C32_StartRefusesOrSettles ==
  [][\A i \in Servers :
       /\ ~registry.servers[i].enabled
            => registry'.servers[i] = registry.servers[i] /\ ~StartStep(i)
       /\ (registry.servers[i].process # 0
              /\ registry.servers[i].status = "running") => ~StartStep(i)
       /\ (StartStep(i) /\ registry'.children[Len(registry'.children)].spawned)
            => registry'.servers[i].status = "starting"
       /\ DeclaredRunning(i) =>
            \E timer \in registry.timers \ registry'.timers :
              /\ timer.kind = "resume" /\ timer.server = i
              /\ now >= timer.due
              /\ registry.servers[i].status = "starting"
              /\ registry.children[timer.child].spawned
              /\ registry.children[timer.child].alive]_vars

\* The children of server i that are alive and were sent no signal
LiveChildren(i) ==
  {c \in Children : /\ registry.children[c].server = i
                    /\ registry.children[c].alive
                    /\ registry.children[c].signal = "none"}

\* C33: a server has at most one child that is alive and is not being
\* terminated, and that child is the process its entry refers to.
C33_OneReferencedChild ==
  \A i \in Servers : LiveChildren(i) \subseteq {registry.servers[i].process}

\* C38: a server that stopServer left stopped, holding no process, is still
\* stopped after the exit event of a child the registry had signalled.
C38_StoppedStaysStopped ==
  [][\A c \in Children :
       LET i == registry.children[c].server IN
       (ExitStep(c) /\ registry.children[c].killed
          /\ registry.servers[i].status = "stopped"
          /\ registry.servers[i].process = 0)
         => registry'.servers[i].status = "stopped"]_vars

\* C39: while a server holds a process, the exit event of an earlier child
\* of it leaves the process handle and the status as they are, and the
\* timer of a stopServer call that terminated an earlier child sends the
\* process held no signal.
C39_OldCallbacksStayAway ==
  [][\A c \in Children :
       LET i == registry.children[c].server
           held == registry.servers[i].process
       IN (held # 0 /\ held # c) =>
            /\ ExitStep(c) =>
                 /\ registry'.servers[i].process = held
                 /\ registry'.servers[i].status = registry.servers[i].status
            /\ (\E timer \in registry.timers \ registry'.timers :
                  timer.kind = "kill" /\ timer.child = c)
                 => registry'.children[held].signal
                      = registry.children[held].signal]_vars

(***************************************************************************)
(* Claims about the tools of the registry, checked under SpecTools.        *)
(***************************************************************************)
\* The k-th server of the registry has a tool of that name registered.
HasTool(k, name) ==
  \E t \in 1..Len(catalog.tools[k]) : catalog.tools[k][t] = name

\* C34: findServerForTool(name) returns the first server, in the order of
\* the registry, that has a tool named name registered, and undefined when
\* no server has; registerTools(id, tools) on a known server makes tools
\* the set registered for it and leaves the other servers as they were, so
\* that a tool the new set lacks no longer resolves to that server.
C34_FirstServerWithTool ==
  /\ [](toolOp # <<>> /\ toolOp[1].op = "find" =>
          LET name == toolOp[1].name
              result == toolOp[1].result
          IN \/ /\ result = Undefined
                /\ \A k \in 1..Len(catalog.servers) : ~HasTool(k, name)
             \/ \E k \in 1..Len(catalog.servers) :
                  /\ result = catalog.servers[k]
                  /\ HasTool(k, name)
                  /\ \A j \in 1..(k - 1) : ~HasTool(j, name))
  /\ [][toolOp' # <<>> /\ toolOp'[1].op = "register" =>
          /\ catalog'.servers = catalog.servers
          /\ \A k \in 1..Len(catalog.servers) :
               catalog'.tools[k] = IF catalog.servers[k] = toolOp'[1].id
                                     THEN toolOp'[1].tools
                                     ELSE catalog.tools[k]]_vars

\* get_x resolves to the second server of the registry, the first having
\* only delete_x registered; the second, "fred", was configured first, then
\* removed and added again.
C34_Witness ==
  /\ toolOp # <<>> /\ toolOp[1].op = "find"
  /\ toolOp[1].name = GetX /\ toolOp[1].result = Fred
  /\ catalog.servers = <<Pay, Fred>>
  /\ catalog.tools = <<<<DeleteX>>, <<GetX, DeleteX>>>>

(***************************************************************************)
(* Claims about the average latency, checked under SpecMeterLatency.       *)
(***************************************************************************)
\* The record calls a summary for consumer c covers: those of c, or all
\* of them when no consumer is given.
Covered(c) ==
  {k \in 1..Len(recorded) : c = Undefined \/ recorded[k].consumerId = c}

\* The latencies of those calls, summed.
LatencyOf(c) ==
  Sum([k \in 1..Len(recorded) |->
         IF k \in Covered(c) THEN recorded[k].latencyMs ELSE 0])

\* C35: avgLatencyMs is the summed latency divided by the number of calls
\* and truncated, and 0 when there are no calls.
C35_AverageTruncated ==
  summary # <<>> =>
    LET c == summary[1].consumerId
        n == Cardinality(Covered(c))
    IN summary[1].result.avgLatencyMs =
         IF n = 0 THEN 0 ELSE LatencyOf(c) \div n

\* C35 amended: avgLatencyMs is the integer nearest to the summed latency
\* divided by the number of calls, the upper one when two are equally
\* near, and 0 when there are no calls.
C35_AverageRounded ==
  summary # <<>> =>
    LET c == summary[1].consumerId
        n == Cardinality(Covered(c))
        avg == summary[1].result.avgLatencyMs
    IN IF n = 0 THEN avg = 0
       ELSE /\ 2 * avg * n - n <= 2 * LatencyOf(c)
            /\ 2 * LatencyOf(c) < 2 * avg * n + n

\* A summary of two calls that took 10 and 11 ms.
C35_Witness ==
  /\ summary # <<>>
  /\ Cardinality(Covered(summary[1].consumerId)) = 2
  /\ LatencyOf(summary[1].consumerId) = 21
  /\ summary[1].result.avgLatencyMs = 11

(***************************************************************************)
(* Claims about the request tracker, checked under SpecTracker.            *)
(***************************************************************************)
\* The requests start() has returned
Started == 1..tracker.ids

\* What the calls of complete, the timers and the return of drain do to
\* the tracker: complete removes its own request and nothing else, and
\* changes nothing when the request is not active; a timer aborts and
\* removes its own request; when drain returns no request is active, the
\* tracker is draining and every request that was active is aborted.
TrackerSteps ==
  trackerLog' # trackerLog =>
    LET call == trackerLog'.last[1]
        before == DOMAIN tracker.active
        after == DOMAIN tracker'.active
    IN /\ call.op = "complete" =>
            IF call.id \in before
              THEN after = before \ {call.id}
              ELSE tracker' = tracker
       /\ call.op = "timeout" =>
            /\ call.id \in before
            /\ after = before \ {call.id}
            /\ tracker'.aborted = tracker.aborted \cup {call.id}
       /\ call.op = "drained" =>
            /\ activeCount(tracker') = 0
            /\ isDraining(tracker')
            /\ before \subseteq tracker'.aborted

\* C36: activeCount always equals the number of requests started and
\* neither completed nor timed out; complete(id) removes exactly that
\* request and is a no-op when repeated or after the timeout; a timeout
\* aborts and removes exactly its own request; after drain returns
\* activeCount is 0, isDraining is true and every request that was still
\* active has been aborted.
C36_ActiveCountOfStarted ==
  /\ [](activeCount(tracker) =
          Cardinality(Started \ (trackerLog.completed \cup trackerLog.timedOut)))
  /\ [][TrackerSteps]_vars

\* C36 amended: the same, with the requests counted being those started
\* and neither completed, timed out nor aborted by drain.
C36_ActiveCountOfTracked ==
  /\ [](/\ activeCount(tracker) =
            Cardinality(Started \ (trackerLog.completed \cup trackerLog.timedOut
                                     \cup trackerLog.forced))
        /\ DOMAIN tracker.active =
            Started \ (trackerLog.completed \cup trackerLog.timedOut
                        \cup trackerLog.forced))
  /\ [][TrackerSteps]_vars

\* drain has returned and aborted a request, after another was completed
\* and a third timed out.
C36_Witness ==
  /\ trackerLog.last = <<TrackerCall("drained", 0)>>
  /\ trackerLog.forced # {}
  /\ trackerLog.completed # {}
  /\ trackerLog.timedOut # {}
  /\ activeCount(tracker) = 0

\* C37: once drain has started, no start() adds an entry to the active
\* set: the active set only shrinks.
C37_DrainRejectsStart ==
  [][isDraining(tracker) =>
       DOMAIN tracker'.active \subseteq DOMAIN tracker.active]_vars

(***************************************************************************)
(* Claims about keys stored as their hash, checked under SpecAuth.         *)
(***************************************************************************)
\* The keys K of which the configuration stores the hash sha256(K)
StoredHashed ==
  {K \in {KeyOne, KeyTwo} : hashKey(K) \in DOMAIN authenticator.keyMap}

\* C40: when the configuration stores sha256(K) for a key K, presenting
\* the stored value sha256(K) itself to authenticate returns null.
C40_StoredHashIsNoCredential ==
  ApiKeyCall =>
    \A K \in StoredHashed :
      credentials = hashKey(K) => authenticated[1] = Null

====
